---- MODULE Spec2Model ----
(***************************************************************************)
(* Client-side storage core of parsec: the ContentBuilder write coalescer  *)
(* and the File engine (src/parsec/core/file.py) running against the       *)
(* Synchronizer's buffered block and vlob stores; the command envelope of  *)
(* core_api.py, the AES key of crypto.py and the IdentityComponent of      *)
(* identity.py.                                                            *)
(***************************************************************************)
EXTENDS Integers, Sequences, FiniteSets, TLC

VARIABLES
    contents,   \* ContentBuilder.contents: regions in dict (insertion) order
    shadow,     \* reference sparse buffer: position -> byte (0 = never written)
    cbn,        \* number of ContentBuilder calls made so far
    cbtrunc,    \* whether ContentBuilder.truncate has been called
    handles,        \* every File object made so far, in creation order
    files,          \* File.files: vlob id -> index (in handles) of its handle
    blocks_local,   \* Synchronizer: block id -> content, created and not synchronized
    blocks_backend, \* backend block store: block id -> content
    vlobs_local,    \* Synchronizer: vlob id -> staged [version, blob]
    vlobs_backend,  \* backend vlob store: vlob id -> blobs of versions 1..n
    fresh,          \* next unused block id, vlob id and key
    log,            \* effects issued by the last operation, in order
    last,           \* the last operation: its name, handle, inputs and outcome
    ref,            \* per handle, the reference in-memory buffer
    fops,           \* number of File operations made so far
    task,           \* the frame of a flush suspended at a request, if any
    serial,         \* the state had every operation run alone, in submission order
    identity,       \* IdentityComponent.identity: the loaded Identity, or None
    backend         \* the backend's cipher keys and registered public keys

\* The identity component and the part of the backend it talks to.
idvars == <<identity, backend>>

\* What the File engine never touches: the ContentBuilder under test and the
\* identity component.
cbvars == <<contents, shadow, cbn, cbtrunc, identity, backend>>

taskvars == <<task, serial>>

filevars == <<handles, files, blocks_local, blocks_backend, vlobs_local,
              vlobs_backend, fresh, log, last, ref, fops, task, serial>>

vars == <<contents, shadow, cbn, cbtrunc, handles, files, blocks_local,
          blocks_backend, vlobs_local, vlobs_backend, fresh, log, last, ref, fops,
          task, serial, identity, backend>>

\* No flush is suspended.
NoTask == [pc |-> "none"]

\* IdentityComponent.identity when it is None.
NoIdentity == [loaded |-> FALSE]

\* IdentityComponent() as constructed and a backend that holds no cipher key
\* and no public key.
IdentityIdle ==
    /\ identity = NoIdentity
    /\ backend = [cipherkeys |-> {}, identities |-> {}]

----------------------------------------------------------------------------
(* Bounds of the ContentBuilder specification. *)

\* Largest length of the data of one ContentBuilder.write.
CBMaxLen == 3
\* Largest offset of a write and largest length of a truncate.
CBMaxOff == 4
\* Number of ContentBuilder calls in one run.
CBMaxOps == 3

----------------------------------------------------------------------------
(* Python helpers. *)

Min(a, b) == IF a < b THEN a ELSE b
Max(a, b) == IF a > b THEN a ELSE b

\* Python's normalisation of a slice bound i against a sequence of length n.
PyIdx(i, n) == IF i < 0 THEN Max(i + n, 0) ELSE Min(i, n)

\* s[a:b] with Python's slice semantics (0-based, b exclusive, negatives
\* counted from the end, out-of-range bounds clamped).
PySlice(s, a, b) ==
    LET lo == PyIdx(a, Len(s))
        hi == PyIdx(b, Len(s))
    IN  IF hi <= lo THEN <<>> ELSE SubSeq(s, lo + 1, hi)

\* s[:b]
PyTo(s, b) == PySlice(s, 0, b)

\* s[a:]
PyFrom(s, a) == PySlice(s, a, Len(s))

----------------------------------------------------------------------------
(* ContentBuilder (file.py 13-51).  contents is a Python dict; it is kept  *)
(* as the sequence of its items in insertion order, which is the order the *)
(* loops of write, truncate and flush visit them in.                       *)

CBKeys(cs) == {cs[i].off : i \in 1..Len(cs)}

\* del d[k] for every k in dels
CBDelete(cs, dels) == SelectSeq(cs, LAMBDA r : r.off \notin dels)

\* d[k] = v: an existing key keeps its place, a new key goes last
CBSet(cs, k, v) ==
    IF k \in CBKeys(cs)
    THEN [i \in 1..Len(cs) |-> IF cs[i].off = k THEN [off |-> k, data |-> v] ELSE cs[i]]
    ELSE Append(cs, [off |-> k, data |-> v])

\* One turn of the loop of ContentBuilder.write (lines 23-37) on the region
\* cur.  loc holds the locals the loop changes: offset, new_data and
\* offsets_to_delete (dels); data and end_offset never change.
CBWriteStep(cur, data, end_offset, loc) ==
    IF loc.offset >= cur.off /\ end_offset <= cur.off + Len(cur.data)
    THEN \* Insert inside
         [loc EXCEPT !.new_data = PyTo(cur.data, loc.offset - cur.off)
                                    \o data
                                    \o PyFrom(cur.data, loc.offset - cur.off + Len(data)),
                     !.offset = cur.off]
    ELSE IF loc.offset <= cur.off /\ end_offset >= cur.off
    THEN \* Insert before and merge
         [loc EXCEPT !.new_data = data \o PyFrom(cur.data, loc.offset + Len(data) - cur.off),
                     !.dels = @ \cup {cur.off}]
    ELSE IF loc.offset = cur.off + Len(cur.data)
    THEN \* Insert after
         [loc EXCEPT !.new_data = PyTo(cur.data, loc.offset) \o @,
                     !.offset = cur.off]
    ELSE loc

\* The loop of ContentBuilder.write (lines 22-37) from item i on.
RECURSIVE CBWriteLoop(_, _, _, _, _)
CBWriteLoop(cs, i, data, end_offset, loc) ==
    IF i > Len(cs) THEN loc
    ELSE CBWriteLoop(cs, i + 1, data, end_offset, CBWriteStep(cs[i], data, end_offset, loc))

\* The map after the loop: the deletions, then contents[offset] = new_data
\* (lines 38-40).
CBStore(cs, loc) == CBSet(CBDelete(cs, loc.dels), loc.offset, loc.new_data)

\* ContentBuilder.write(data, offset)
ContentBuilderWrite(cs, data, offset) ==
    CBStore(cs, CBWriteLoop(cs, 1, data, offset + Len(data),
                            [offset |-> offset, new_data |-> data, dels |-> {}]))

\* ContentBuilder.truncate(length)
ContentBuilderTruncate(cs, length) ==
    CBDelete([i \in 1..Len(cs) |->
                IF cs[i].off > length THEN cs[i]
                ELSE IF cs[i].off + Len(cs[i].data) > length
                     THEN [off |-> cs[i].off,
                           data |-> PyTo(cs[i].data, length - cs[i].off)]
                     ELSE cs[i]],
             {cs[i].off : i \in {j \in 1..Len(cs) : cs[j].off > length}})

----------------------------------------------------------------------------
(* The ContentBuilder driven directly: every write carries its own call    *)
(* number as the value of all its bytes, so the origin of each byte of the *)
(* region map is known.                                                    *)

CBPositions == 0..(CBMaxOff + CBMaxLen)

\* data of length n written by call number k
TagData(k, n) == [i \in 1..n |-> k]

\* The byte the region map holds at position p: regions are replayed in
\* dict order (as flush does), so the last region covering p decides.
RECURSIVE CBByteAtFrom(_, _, _)
CBByteAtFrom(cs, i, p) ==
    IF i = 0 THEN 0
    ELSE IF cs[i].off <= p /\ p < cs[i].off + Len(cs[i].data)
         THEN cs[i].data[p - cs[i].off + 1]
         ELSE CBByteAtFrom(cs, i - 1, p)

CBByteAt(p) == CBByteAtFrom(contents, Len(contents), p)

\* The File engine before any File exists: empty registry, empty stores.
FileIdle ==
    /\ handles = <<>>
    /\ files = <<>>
    /\ blocks_local = <<>>
    /\ blocks_backend = <<>>
    /\ vlobs_local = <<>>
    /\ vlobs_backend = <<>>
    /\ fresh = [block |-> 1, vlob |-> 1, key |-> 1]
    /\ log = <<>>
    /\ last = [op |-> "none"]
    /\ ref = <<>>
    /\ fops = 0
    /\ task = NoTask
    /\ serial = NoTask

CBInit ==
    /\ contents = <<>>
    /\ shadow = [p \in CBPositions |-> 0]
    /\ cbn = 0
    /\ cbtrunc = FALSE
    /\ IdentityIdle
    /\ FileIdle

CBWrite ==
    \E n \in 0..CBMaxLen, offset \in 0..CBMaxOff :
        /\ cbn < CBMaxOps
        /\ contents' = ContentBuilderWrite(contents, TagData(cbn + 1, n), offset)
        /\ shadow' = [p \in CBPositions |->
                        IF offset <= p /\ p < offset + n THEN cbn + 1 ELSE shadow[p]]
        /\ cbn' = cbn + 1
        /\ UNCHANGED cbtrunc
        /\ UNCHANGED <<filevars, idvars>>

CBTruncate ==
    \E length \in 0..CBMaxOff :
        /\ cbn < CBMaxOps
        /\ contents' = ContentBuilderTruncate(contents, length)
        /\ shadow' = [p \in CBPositions |-> IF p >= length THEN 0 ELSE shadow[p]]
        /\ cbn' = cbn + 1
        /\ cbtrunc' = TRUE
        /\ UNCHANGED <<filevars, idvars>>

CBNext == CBWrite \/ CBTruncate

SpecCB == CBInit /\ [][CBNext]_vars

----------------------------------------------------------------------------
(* Claims about the ContentBuilder. *)

\* C2: after every write or truncate, no two regions of the map overlap and no
\* two are adjacent: for distinct entries with o1 < o2, o1 + len(c1) < o2.
C2_NoOverlapNoAdjacent ==
    \A i, j \in 1..Len(contents) :
        contents[i].off < contents[j].off
            => contents[i].off + Len(contents[i].data) < contents[j].off

\* C3: after a sequence of writes only, every position holds in the region map
\* the byte of the last write that covered it, and no written byte is lost.
C3_LastWriteWins ==
    ~cbtrunc => \A p \in CBPositions : CBByteAt(p) = shadow[p]

----------------------------------------------------------------------------
(* Values shared by the File engine and the stores.                        *)

\* Python's None where an integer is optional (a version, a size).
None == -1

\* sys.maxsize as used by _find_matching_blocks for "no size given": a value
\* above every offset and length that occurs.
sys_maxsize == 1000000

\* chunk_size of _build_file_blocks
chunk_size == 4096

\* Function update and removal (dict[k] = v, del dict[k]).
Put(f, k, v) == [x \in (DOMAIN f) \cup {k} |-> IF x = k THEN v ELSE f[x]]
Del(f, k) == [x \in (DOMAIN f) \ {k} |-> f[x]]

\* AESKey.encrypt / AESKey.decrypt: the ciphertext opens under its own key
\* only; any other key fails the tag check.
Encrypt(key, cleartext) == [key |-> key, cleartext |-> cleartext]
DecryptOk(key, ciphertext) == ciphertext.key = key
Decrypt(key, ciphertext) == ciphertext.cleartext

\* to_jsonb64 / from_jsonb64, ejson_dumps(..).encode() / ejson_loads(..decode())
ToJsonb64(x) == [b64 |-> x]
FromJsonb64(y) == y.b64
EjsonDumps(x) == [json |-> x]
EjsonLoads(y) == y.json

\* digest(chunk)
Digest(chunk) == [sha |-> chunk]

\* The trust seeds the vlob store issues for vlob id.
ReadSeed(id) == [rts |-> id]
WriteSeed(id) == [wts |-> id]

----------------------------------------------------------------------------
(* An operation is evaluated on a record of the whole state, passed from   *)
(* one statement to the next:                                              *)
(*   handles, files                 the File objects and the registry      *)
(*   bl, bb, vl, vb                 the four stores                        *)
(*   fresh, log                     id counters and the effects issued     *)
(*   exc                            the exception raised ("none" if none)  *)
(*   res                            the value of the last statement        *)
(*   down                           the Synchronizer refuses vlob updates  *)

Cur == [handles |-> handles, files |-> files,
        bl |-> blocks_local, bb |-> blocks_backend,
        vl |-> vlobs_local, vb |-> vlobs_backend,
        fresh |-> fresh, log |-> <<>>, exc |-> "none", res |-> None, down |-> FALSE]

Ok(S) == S.exc = "none"
Raise(S, e) == [S EXCEPT !.exc = e]
Return(S, v) == [S EXCEPT !.res = v]

\* Number of committed versions of vlob id on the backend.
Committed(vb, id) == IF id \in DOMAIN vb THEN Len(vb[id]) ELSE 0

\* Block ids referenced by a vlob payload (a sequence of block groups).
BlobBlockIds(blob) ==
    UNION {{blob[g].blocks[b].block : b \in 1..Len(blob[g].blocks)} : g \in 1..Len(blob)}

----------------------------------------------------------------------------
(* The Synchronizer's answers to the effects of file.py (parsec.core.      *)
(* synchronizer): creates and updates are served from the local buffer,    *)
(* reads look at the local buffer first, deletes remove what is buffered   *)
(* and answer not-found for what is not (which discard reads as "already   *)
(* synchronized"), synchronize pushes to the backend.                      *)

EBlockCreate(S, content) ==
    LET id == S.fresh.block
    IN  [S EXCEPT !.bl = Put(@, id, content),
                  !.fresh.block = id + 1,
                  !.log = Append(@, [e |-> "BlockCreate", id |-> id]),
                  !.res = id]

EBlockRead(S, id) ==
    IF id \in DOMAIN S.bl THEN Return(S, [content |-> S.bl[id]])
    ELSE IF id \in DOMAIN S.bb THEN Return(S, [content |-> S.bb[id]])
    ELSE Raise(S, "block_not_found")

EBlockDelete(S, id) ==
    LET L == [S EXCEPT !.log = Append(@, [e |-> "BlockDelete", id |-> id])]
    IN  IF id \in DOMAIN S.bl
        THEN [L EXCEPT !.bl = Del(@, id)]
        ELSE Raise(L, "block_not_found")

\* available: whether the backend answers this request
EBlockSynchronize(S, id, available) ==
    LET L == [S EXCEPT !.log = Append(@, [e |-> "BlockSynchronize", id |-> id,
                                           ok |-> available])]
    IN  IF ~available THEN Raise(L, "backend_unavailable")
        ELSE IF id \in DOMAIN S.bl
        THEN Return([L EXCEPT !.bb = Put(@, id, S.bl[id]), !.bl = Del(@, id)], TRUE)
        ELSE Return(L, FALSE)

EVlobCreate(S, blob) ==
    LET id == S.fresh.vlob
    IN  [S EXCEPT !.vl = Put(@, id, [version |-> 1, blob |-> blob]),
                  !.fresh.vlob = id + 1,
                  !.log = Append(@, [e |-> "VlobCreate", id |-> id]),
                  !.res = [id |-> id, read_trust_seed |-> ReadSeed(id),
                           write_trust_seed |-> WriteSeed(id)]]

\* The three answers of EVlobSynchronize: a falsy value, True, or the new
\* identity of the vlob.
SyncNothing == [status |-> "false"]
SyncPromoted == [status |-> "true"]
SyncNewIdentity(id) == [status |-> "new", id |-> id, read_trust_seed |-> ReadSeed(id),
                        write_trust_seed |-> WriteSeed(id)]

\* The versions of vlob id a read can be served: the staged one and the
\* committed ones.
VlobVersions(S, id) ==
    (IF id \in DOMAIN S.vl THEN {S.vl[id].version} ELSE {})
        \cup (1..Committed(S.vb, id))

VlobBlob(S, id, v) ==
    IF id \in DOMAIN S.vl /\ S.vl[id].version = v THEN S.vl[id].blob ELSE S.vb[id][v]

EVlobRead(S, id, read_trust_seed, version) ==
    LET avail == VlobVersions(S, id)
        upto == IF version = None THEN avail ELSE {v \in avail : v <= version}
        v == IF version = None /\ id \in DOMAIN S.vl
             THEN S.vl[id].version
             ELSE CHOOSE x \in upto : \A y \in upto : y <= x
    IN  IF upto = {} THEN Raise(S, "vlob_not_found")
        ELSE IF read_trust_seed # ReadSeed(id) THEN Raise(S, "trust_seed_error")
        ELSE Return(S, [id |-> id, blob |-> VlobBlob(S, id, v), version |-> v])

EVlobUpdate(S, id, write_trust_seed, version, blob) ==
    LET L == [S EXCEPT !.log = Append(@, [e |-> "VlobUpdate", id |-> id,
                                           version |-> version,
                                           committed |-> Committed(S.vb, id),
                                           at |-> S.handles])]
    IN  IF S.down THEN Raise(L, "backend_unavailable")
        ELSE IF VlobVersions(S, id) = {} THEN Raise(L, "vlob_not_found")
        ELSE IF write_trust_seed # WriteSeed(id) THEN Raise(L, "trust_seed_error")
        ELSE [L EXCEPT !.vl = Put(@, id, [version |-> version, blob |-> blob])]

EVlobDelete(S, id) ==
    LET L == [S EXCEPT !.log = Append(@, [e |-> "VlobDelete", id |-> id])]
    IN  IF id \in DOMAIN S.vl
        THEN [L EXCEPT !.vl = Del(@, id)]
        ELSE Raise(L, "vlob_not_found")

EVlobList(S) == Return(S, DOMAIN S.vl)

\* available: whether the backend answers; substitute: whether the server
\* gives a vlob it did not know yet an id of its own.
EVlobSynchronize(S, id, available, substitute) ==
    LET staged == S.vl[id]
        n == Committed(S.vb, id)
        L == [S EXCEPT !.log = Append(@, [e |-> "VlobSynchronize", id |-> id,
                                           ok |-> available,
                                           staged |-> id \in DOMAIN S.vl,
                                           blob |-> IF id \in DOMAIN S.vl
                                                    THEN staged.blob ELSE None])]
        new == S.fresh.vlob
    IN  IF ~available THEN Raise(L, "backend_unavailable")
        ELSE IF id \notin DOMAIN S.vl THEN Return(L, SyncNothing)
        ELSE IF staged.version # n + 1 THEN Raise(L, "version_conflict")
        ELSE IF n = 0 /\ substitute
        THEN [L EXCEPT !.vb = Put(@, new, <<staged.blob>>),
                       !.vl = Del(@, id),
                       !.fresh.vlob = new + 1,
                       !.res = SyncNewIdentity(new)]
        ELSE [L EXCEPT !.vb = Put(@, id, IF n = 0 THEN <<staged.blob>>
                                         ELSE Append(S.vb[id], staged.blob)),
                       !.vl = Del(@, id),
                       !.res = SyncPromoted]

----------------------------------------------------------------------------
(* File (file.py 54-411).  A File object is a record                       *)
(*   [id, read_trust_seed, write_trust_seed, encryptor, version, dirty,    *)
(*    modifications]                                                       *)
(* and is named by its index in handles.  A pending modification is        *)
(*   [op |-> "write", data, offset]  or  [op |-> "truncate", length].      *)

\* v named x in F: v is evaluated once.
Let1(v, F(_)) == CHOOSE r \in {F(x) : x \in {v}} : TRUE

\* The statement F after the statement that left S, unless that one raised.
Then(S, F(_)) == Let1(S, LAMBDA x : IF Ok(x) THEN F(x) ELSE x)

\* File.get_version
get_version(self) == IF self.dirty THEN self.version + 1 ELSE self.version

\* File.get_vlob
get_vlob(self) ==
    [id |-> self.id, read_trust_seed |-> self.read_trust_seed,
     write_trust_seed |-> self.write_trust_seed, key |-> ToJsonb64(self.encryptor)]

\* groups[-1]['blocks'].append(bp) when the last group has this key, else
\* groups.append({'blocks': [bp], 'key': key})   (lines 372-375, 386-389, 398-402)
AddBlock(groups, bp, key) ==
    IF Len(groups) > 0 /\ groups[Len(groups)].key = key
    THEN [groups EXCEPT ![Len(groups)].blocks = Append(@, bp)]
    ELSE Append(groups, [blocks |-> <<bp>>, key |-> key])

\* The blocks of a vlob payload in file order, each with the key of its group:
\* the order the two nested loops of _find_matching_blocks visit them in.
RECURSIVE BlobItems(_, _)
BlobItems(blob, g) ==
    IF g > Len(blob) THEN <<>>
    ELSE [b \in 1..Len(blob[g].blocks) |-> [key |-> blob[g].key, bp |-> blob[g].blocks[b]]]
            \o BlobItems(blob, g + 1)

\* EBlockRead of one block of the payload followed by its decryption
\* (lines 378-380 and 392-394): res is the cleartext.
ReadBlockData(S, item) ==
    Then(EBlockRead(S, item.bp.block), LAMBDA R :
        IF ~DecryptOk(FromJsonb64(item.key), FromJsonb64(R.res.content))
        THEN Raise(R, "integrity_error")
        ELSE Return(R, Decrypt(FromJsonb64(item.key), FromJsonb64(R.res.content))))

\* One turn of the loop of _find_matching_blocks where the block the range
\* starts in gives all its bytes from offset on, without the cut at size: a
\* variant.
FindStepNoCut(S, it, size, offset, cursor, m) ==
    IF cursor <= offset
    THEN Return(S, [m EXCEPT !.pre_excluded_blocks = AddBlock(@, it.bp, it.key)])
    ELSE IF cursor > offset /\ cursor - it.bp.size < offset
    THEN Then(ReadBlockData(S, it), LAMBDA D :
           Return(D, [m EXCEPT !.pre_excluded_data = PyTo(D.res, 0 - (cursor - offset)),
                               !.pre_included_data = PyFrom(D.res, 0 - (cursor - offset))]))
    ELSE IF cursor > offset /\ cursor <= offset + size
    THEN Return(S, [m EXCEPT !.included_blocks = AddBlock(@, it.bp, it.key)])
    ELSE IF cursor > offset + size /\ cursor - it.bp.size < offset + size
    THEN Then(ReadBlockData(S, it), LAMBDA D :
           Return(D, [m EXCEPT
               !.post_included_data = PyTo(D.res, offset + size - (cursor - it.bp.size)),
               !.post_excluded_data = PyFrom(D.res, offset + size - (cursor - it.bp.size))]))
    ELSE Return(S, [m EXCEPT !.post_excluded_blocks = AddBlock(@, it.bp, it.key)])

\* One turn of the loop of _find_matching_blocks (lines 370-402) on the block
\* it, cursor being the position after it; m holds the seven results built
\* so far and res is m after this turn.
\* _find_matching_blocks forgetting the bytes of the last block that lie
\* after the requested range: a variant.
FindStepDropTail(S, it, size, offset, cursor, m) ==
    IF cursor <= offset
    THEN Return(S, [m EXCEPT !.pre_excluded_blocks = AddBlock(@, it.bp, it.key)])
    ELSE IF cursor > offset /\ cursor - it.bp.size < offset
    THEN Then(ReadBlockData(S, it), LAMBDA D :
           Let1(PyFrom(D.res, 0 - (cursor - offset)), LAMBDA tail :
             Return(D, [m EXCEPT !.pre_excluded_data = PyTo(D.res, 0 - (cursor - offset)),
                                 !.pre_included_data = PyTo(tail, size),
                                 !.post_excluded_data =
                                     IF size < Len(tail) THEN PyFrom(tail, size) ELSE @])))
    ELSE IF cursor > offset /\ cursor <= offset + size
    THEN Return(S, [m EXCEPT !.included_blocks = AddBlock(@, it.bp, it.key)])
    ELSE IF cursor > offset + size /\ cursor - it.bp.size < offset + size
    THEN Then(ReadBlockData(S, it), LAMBDA D :
           Return(D, [m EXCEPT
               !.post_included_data = PyTo(D.res, offset + size - (cursor - it.bp.size))]))
    ELSE Return(S, [m EXCEPT !.post_excluded_blocks = AddBlock(@, it.bp, it.key)])

FindStep(S, it, size, offset, cursor, m) ==
    IF cursor <= offset
    THEN Return(S, [m EXCEPT !.pre_excluded_blocks = AddBlock(@, it.bp, it.key)])
    ELSE IF cursor > offset /\ cursor - it.bp.size < offset
    THEN Then(ReadBlockData(S, it), LAMBDA D :
           Let1(PyFrom(D.res, 0 - (cursor - offset)), LAMBDA tail :
             Return(D, [m EXCEPT !.pre_excluded_data = PyTo(D.res, 0 - (cursor - offset)),
                                 !.pre_included_data = PyTo(tail, size),
                                 !.post_excluded_data =
                                     IF size < Len(tail) THEN PyFrom(tail, size) ELSE @])))
    ELSE IF cursor > offset /\ cursor <= offset + size
    THEN Return(S, [m EXCEPT !.included_blocks = AddBlock(@, it.bp, it.key)])
    ELSE IF cursor > offset + size /\ cursor - it.bp.size < offset + size
    THEN Then(ReadBlockData(S, it), LAMBDA D :
           Return(D, [m EXCEPT
               !.post_included_data = PyTo(D.res, offset + size - (cursor - it.bp.size)),
               !.post_excluded_data = PyFrom(D.res, offset + size - (cursor - it.bp.size))]))
    ELSE Return(S, [m EXCEPT !.post_excluded_blocks = AddBlock(@, it.bp, it.key)])

\* The loop of _find_matching_blocks (lines 365-402) from item i on, before
\* being the cursor reached.
RECURSIVE FindLoop(_, _, _, _, _, _, _)
FindLoop(S, items, i, size, offset, before, m) ==
    IF i > Len(items) THEN Return(S, m)
    ELSE Then(FindStep(S, items[i], size, offset, before + items[i].bp.size, m),
              LAMBDA R : FindLoop(R, items, i + 1, size, offset,
                                  before + items[i].bp.size, R.res))

NoMatch == [pre_excluded_blocks |-> <<>>, pre_excluded_data |-> <<>>,
            pre_included_data |-> <<>>, included_blocks |-> <<>>,
            post_included_data |-> <<>>, post_excluded_data |-> <<>>,
            post_excluded_blocks |-> <<>>]

\* File._find_matching_blocks(size, offset)
find_matching_blocks(S, h, size, offset) ==
    Then(EVlobRead(S, S.handles[h].id, S.handles[h].read_trust_seed,
                   get_version(S.handles[h])),
         LAMBDA V :
           IF ~DecryptOk(S.handles[h].encryptor, FromJsonb64(V.res.blob))
           THEN Raise(V, "integrity_error")
           ELSE FindLoop(V, BlobItems(EjsonLoads(Decrypt(S.handles[h].encryptor,
                                                         FromJsonb64(V.res.blob))), 1),
                         1, IF size = None THEN sys_maxsize ELSE size, offset, 0, NoMatch))

\* The ids of the blocks of a sequence of groups, in order.
RECURSIVE GroupBlockIds(_, _)
GroupBlockIds(groups, g) ==
    IF g > Len(groups) THEN <<>>
    ELSE [b \in 1..Len(groups[g].blocks) |-> groups[g].blocks[b].block]
            \o GroupBlockIds(groups, g + 1)

\* File.get_blocks
get_blocks(S, h) ==
    Then(find_matching_blocks(S, h, None, 0), LAMBDA M :
        Return(M, GroupBlockIds(M.res.pre_excluded_blocks \o M.res.included_blocks, 1)))

\* chunks = [data[i:i + chunk_size] for i in range(0, len(data), chunk_size)],
\* with one empty chunk forced when there is none
Chunks(data) ==
    IF Len(data) = 0 THEN << <<>> >>
    ELSE [c \in 1..((Len(data) + chunk_size - 1) \div chunk_size) |->
            PySlice(data, (c - 1) * chunk_size, c * chunk_size)]

\* The loop of _build_file_blocks (lines 331-337).
RECURSIVE BuildLoop(_, _, _, _, _)
BuildLoop(S, key, chunks, c, blocks) ==
    IF c > Len(chunks) THEN Return(S, blocks)
    ELSE Let1(EBlockCreate(S, ToJsonb64(Encrypt(key, chunks[c]))), LAMBDA B :
           BuildLoop(B, key, chunks, c + 1,
                     Append(blocks, [block |-> B.res, digest |-> Digest(chunks[c]),
                                     size |-> Len(chunks[c])])))

\* File._build_file_blocks(data); h = 0 is the File under construction in
\* create, which has no place in handles yet.
build_file_blocks(S, h, data) ==
    Let1(BuildLoop([S EXCEPT !.fresh.key = @ + 1], S.fresh.key, Chunks(data), 1, <<>>),
         LAMBDA B :
           Return(IF h = 0 THEN B ELSE [B EXCEPT !.handles[h].dirty = TRUE],
                  [blocks |-> B.res, key |-> ToJsonb64(S.fresh.key)]))

\* The first loop of flush (lines 227-237): the ContentBuilder fed with the
\* queue, and shortest_truncate.  "not shortest_truncate" holds for None
\* and for 0.
RECURSIVE MergeModifications(_, _, _, _)
MergeModifications(mods, i, builder, shortest_truncate) ==
    IF i > Len(mods) THEN [contents |-> builder, shortest_truncate |-> shortest_truncate]
    ELSE MergeModifications(mods, i + 1,
            IF mods[i].op = "write"
            THEN ContentBuilderWrite(builder, mods[i].data, mods[i].offset)
            ELSE ContentBuilderTruncate(builder, mods[i].length),
            IF mods[i].op = "write" THEN shortest_truncate
            ELSE IF shortest_truncate = None \/ shortest_truncate = 0
                    \/ shortest_truncate > mods[i].length
                 THEN mods[i].length
                 ELSE shortest_truncate)

\* UpdateVlob followed by EVlobSynchronize of the vlob: a variant that pushes
\* every update as it is made.
UpdateVlobThrough(S, h, blob) ==
    Then(EVlobUpdate(S, S.handles[h].id, S.handles[h].write_trust_seed,
                     S.handles[h].version + 1,
                     ToJsonb64(Encrypt(S.handles[h].encryptor, EjsonDumps(blob)))),
         LAMBDA U :
           Let1(EVlobSynchronize(U, U.handles[h].id, TRUE, FALSE), LAMBDA V :
             [V EXCEPT !.exc = "none", !.handles[h].dirty = TRUE]))

\* The vlob update of flush counting each sub-update as a version: a variant.
UpdateVlobCounting(S, h, blob) ==
    Then(EVlobUpdate(S, S.handles[h].id, S.handles[h].write_trust_seed,
                     S.handles[h].version + 1,
                     ToJsonb64(Encrypt(S.handles[h].encryptor, EjsonDumps(blob)))),
         LAMBDA U : [U EXCEPT !.handles[h].dirty = TRUE,
                              !.handles[h].version = @ + 1])

\* The vlob update of flush clearing dirty when EVlobUpdate fails: a variant.
UpdateVlobUndoDirty(S, h, blob) ==
    Let1(EVlobUpdate(S, S.handles[h].id, S.handles[h].write_trust_seed,
                     S.handles[h].version + 1,
                     ToJsonb64(Encrypt(S.handles[h].encryptor, EjsonDumps(blob)))),
         LAMBDA U : IF Ok(U) THEN [U EXCEPT !.handles[h].dirty = TRUE]
                    ELSE [U EXCEPT !.handles[h].dirty = FALSE])

\* encrypt the payload with the File's key and issue EVlobUpdate(version + 1)
\* (lines 247-255 and 267-275)
UpdateVlob(S, h, blob) ==
    Then(EVlobUpdate(S, S.handles[h].id, S.handles[h].write_trust_seed,
                     S.handles[h].version + 1,
                     ToJsonb64(Encrypt(S.handles[h].encryptor, EjsonDumps(blob)))),
         LAMBDA U : [U EXCEPT !.handles[h].dirty = TRUE])

\* "Truncate file" of flush (lines 241-255)
FlushTruncate(S, h, shortest_truncate) ==
    Then(find_matching_blocks(S, h, shortest_truncate, 0), LAMBDA M :
      Let1(build_file_blocks(M, h, M.res.post_included_data), LAMBDA B :
        UpdateVlob(B, h, M.res.included_blocks \o <<B.res>>)))

\* One turn of "Write new contents" of flush (lines 258-275)
FlushRegion(S, h, region) ==
    Then(find_matching_blocks(S, h, Len(region.data), region.off), LAMBDA M :
      Let1(build_file_blocks(M, h, M.res.pre_excluded_data \o region.data
                                     \o M.res.post_excluded_data), LAMBDA B :
        UpdateVlob(B, h, M.res.pre_excluded_blocks \o <<B.res>>
                           \o M.res.post_excluded_blocks)))

\* "Write new contents" of flush (lines 257-275) from region i on
RECURSIVE FlushWrite(_, _, _, _)
FlushWrite(S, h, regions, i) ==
    IF i > Len(regions) THEN S
    ELSE Then(FlushRegion(S, h, regions[i]), LAMBDA U : FlushWrite(U, h, regions, i + 1))

\* EBlockDelete with BlockNotFound swallowed; res: whether one was, now or
\* before (missed).
DeleteBlock(S, id, missed) ==
    Let1(EBlockDelete(S, id), LAMBDA D :
        IF D.exc = "block_not_found" THEN Return([D EXCEPT !.exc = "none"], TRUE)
        ELSE Return(D, missed))

\* EBlockDelete of every id of ids not in keep, from the i-th on (lines
\* 278-283 with keep the current ids; 309-313 with keep empty).
RECURSIVE DeleteBlocks(_, _, _, _, _)
DeleteBlocks(S, ids, i, keep, missed) ==
    IF i > Len(ids) THEN Return(S, missed)
    ELSE Then(IF ids[i] \in keep THEN Return(S, missed) ELSE DeleteBlock(S, ids[i], missed),
              LAMBDA D : DeleteBlocks(D, ids, i + 1, keep, D.res))

\* flush after its first loop, deleting every previous block whether the new
\* vlob references it or not: a variant.
FlushMergedDeleteAll(S, h, merged) ==
    Then(get_blocks([S EXCEPT !.handles[h].modifications = <<>>], h), LAMBDA P :
      Then(IF merged.shortest_truncate # None
           THEN FlushTruncate(P, h, merged.shortest_truncate) ELSE P, LAMBDA T :
        Then(FlushWrite(T, h, merged.contents, 1), LAMBDA W :
          Then(get_blocks(W, h), LAMBDA N : DeleteBlocks(N, P.res, 1, {}, FALSE)))))

\* flush after its first loop (lines 238-283)
FlushMerged(S, h, merged) ==
    Then(get_blocks([S EXCEPT !.handles[h].modifications = <<>>], h), LAMBDA P :
      Then(IF merged.shortest_truncate # None
           THEN FlushTruncate(P, h, merged.shortest_truncate) ELSE P, LAMBDA T :
        Then(FlushWrite(T, h, merged.contents, 1), LAMBDA W :
          Then(get_blocks(W, h), LAMBDA N :
            DeleteBlocks(N, P.res, 1, {N.res[i] : i \in 1..Len(N.res)}, FALSE)))))

\* File.flush
flush(S, h) ==
    IF S.handles[h].modifications = <<>> THEN S
    ELSE Let1(MergeModifications(S.handles[h].modifications, 1, <<>>, None),
              LAMBDA merged : FlushMerged(S, h, merged))

\* The loop of read (lines 126-142) over the included blocks: each is read,
\* decrypted and checked against its digest and size.
RECURSIVE ReadBlocks(_, _, _, _)
ReadBlocks(S, items, i, data) ==
    IF i > Len(items) THEN Return(S, data)
    ELSE Then(ReadBlockData(S, items[i]), LAMBDA D :
           IF Digest(D.res) # items[i].bp.digest \/ Len(D.res) # items[i].bp.size
           THEN Raise(D, "assertion_error")
           ELSE ReadBlocks(D, items, i + 1, data \o D.res))

\* File.read(size, offset): res is the data read
read(S, h, size, offset) ==
    Then(flush(S, h), LAMBDA F :
      Then(find_matching_blocks(F, h, size, offset), LAMBDA M :
        Then(ReadBlocks(M, BlobItems(M.res.included_blocks, 1), 1, M.res.pre_included_data),
             LAMBDA R : Return(R, R.res \o M.res.post_included_data))))

\* File.write flushing the queue it has appended to: a variant.
write_through(S, h, data, offset) ==
    flush([S EXCEPT !.handles[h].modifications =
                        Append(@, [op |-> "write", data |-> data, offset |-> offset])], h)

\* File.write, File.truncate
write(S, h, data, offset) ==
    [S EXCEPT !.handles[h].modifications =
                  Append(@, [op |-> "write", data |-> data, offset |-> offset])]

truncate(S, h, length) ==
    [S EXCEPT !.handles[h].modifications = Append(@, [op |-> "truncate", length |-> length])]

\* The EBlockSynchronize loop of commit (lines 289-290); the failing-th
\* request finds the backend unavailable (0: none does).
RECURSIVE SynchronizeBlocks(_, _, _, _)
SynchronizeBlocks(S, ids, i, failing) ==
    IF i > Len(ids) THEN S
    ELSE Then(EBlockSynchronize(S, ids[i], i # failing),
              LAMBDA B : SynchronizeBlocks(B, ids, i + 1, failing))

\* The identity and seeds of new_vlob given to File self (lines 295-297).
Moved(self, new_vlob) ==
    [self EXCEPT !.id = new_vlob.id,
                 !.read_trust_seed = new_vlob.read_trust_seed,
                 !.write_trust_seed = new_vlob.write_trust_seed]

\* The end of commit without "self.version += 1": a variant.
CommitAnswerSameVersion(S, h, new_vlob) ==
    IF new_vlob.status = "new"
    THEN Let1(Moved(S.handles[h], new_vlob), LAMBDA moved :
                [S EXCEPT !.files = Put(Del(@, S.handles[h].id), moved.id, h),
                          !.handles[h] = [moved EXCEPT !.dirty = FALSE],
                          !.res = [status |-> "new", vlob |-> get_vlob(moved)]])
    ELSE [S EXCEPT !.handles[h].dirty = FALSE]

\* The end of commit without "del File.files[self.id]": a variant.
CommitAnswerKeepOldId(S, h, new_vlob) ==
    IF new_vlob.status = "new"
    THEN Let1(Moved(S.handles[h], new_vlob), LAMBDA moved :
                [S EXCEPT !.files = Put(@, moved.id, h),
                          !.handles[h] = [moved EXCEPT !.version = @ + 1, !.dirty = FALSE],
                          !.res = [status |-> "new", vlob |-> get_vlob(moved)]])
    ELSE IF new_vlob.status = "true"
    THEN [S EXCEPT !.handles[h].version = @ + 1, !.handles[h].dirty = FALSE]
    ELSE [S EXCEPT !.handles[h].dirty = FALSE]

\* The end of commit (lines 292-302), new_vlob being the answer of
\* EVlobSynchronize; res is the value returned.
CommitAnswer(S, h, new_vlob) ==
    IF new_vlob.status = "new"
    THEN Let1(Moved(S.handles[h], new_vlob), LAMBDA moved :
                [S EXCEPT !.files = Put(Del(@, S.handles[h].id), moved.id, h),
                          !.handles[h] = [moved EXCEPT !.version = @ + 1, !.dirty = FALSE],
                          !.res = [status |-> "new", vlob |-> get_vlob(moved)]])
    ELSE IF new_vlob.status = "true"
    THEN [S EXCEPT !.handles[h].version = @ + 1, !.handles[h].dirty = FALSE]
    ELSE [S EXCEPT !.handles[h].dirty = FALSE]

\* commit with "self.dirty = False" done before the synchronize requests
\* instead of after them: a variant.
commit_clean_first(S, h, fault, substitute) ==
    Then(flush(S, h), LAMBDA F :
      Then(get_blocks(F, h), LAMBDA G :
        Then(SynchronizeBlocks([G EXCEPT !.handles[h].dirty = FALSE], G.res, 1, fault),
             LAMBDA B :
          Then(EVlobSynchronize(B, B.handles[h].id, fault # Len(G.res) + 1, substitute),
               LAMBDA V : CommitAnswer(V, h, V.res)))))

\* File.commit; res is the value returned.  fault: which of the synchronize
\* requests of this commit (the blocks', then the vlob's) finds the backend
\* unavailable; substitute: see EVlobSynchronize.
commit(S, h, fault, substitute) ==
    Then(flush(S, h), LAMBDA F :
      Then(get_blocks(F, h), LAMBDA G :
        Then(SynchronizeBlocks(G, G.res, 1, fault), LAMBDA B :
          Then(EVlobSynchronize(B, B.handles[h].id, fault # Len(G.res) + 1, substitute),
               LAMBDA V : CommitAnswer(V, h, V.res)))))

\* The end of discard (lines 314-319), missed telling whether a BlockNotFound
\* was caught; res is the value returned.
DiscardVlob(S, h, missed) ==
    Let1(EVlobDelete(S, S.handles[h].id), LAMBDA V :
        IF V.exc = "vlob_not_found"
        THEN Return([V EXCEPT !.exc = "none", !.handles[h].dirty = FALSE], FALSE)
        ELSE IF ~Ok(V) THEN V
        ELSE Return([V EXCEPT !.handles[h].dirty = FALSE], ~missed))

\* File.discard; res is the value returned
discard(S, h) ==
    Then(get_blocks([S EXCEPT !.handles[h].modifications = <<>>], h), LAMBDA G :
      Then(DeleteBlocks(G, G.res, 1, {}, FALSE), LAMBDA D : DiscardVlob(D, h, D.res)))

\* restore accepting version = get_version(): a variant with the upper bound
\* off by one.
RestoreVersionLoose(S, h, v) ==
    IF v < 1 \/ v > get_version(S.handles[h]) THEN Raise(S, "bad_version")
    ELSE Then(discard(S, h), LAMBDA D :
           Then(EVlobRead(D, D.handles[h].id, D.handles[h].read_trust_seed, v), LAMBDA R :
             Then(EVlobUpdate(R, R.handles[h].id, R.handles[h].write_trust_seed,
                              R.handles[h].version + 1, R.res.blob),
                  LAMBDA U : Return([U EXCEPT !.handles[h].dirty = TRUE], None))))

\* restore reading the latest version instead of the one asked: a variant.
RestoreVersionLatest(S, h, v) ==
    IF v < 1 \/ v >= get_version(S.handles[h]) THEN Raise(S, "bad_version")
    ELSE Then(discard(S, h), LAMBDA D :
           Then(EVlobRead(D, D.handles[h].id, D.handles[h].read_trust_seed, None),
                LAMBDA R :
                  Then(EVlobUpdate(R, R.handles[h].id, R.handles[h].write_trust_seed,
                                   R.handles[h].version + 1, R.res.blob),
                       LAMBDA U : Return([U EXCEPT !.handles[h].dirty = TRUE], None))))

\* restore once the version is known (lines 193-201)
RestoreVersion(S, h, v) ==
    IF v < 1 \/ v >= get_version(S.handles[h]) THEN Raise(S, "bad_version")
    ELSE Then(discard(S, h), LAMBDA D :
           Then(EVlobRead(D, D.handles[h].id, D.handles[h].read_trust_seed, v), LAMBDA R :
             Then(EVlobUpdate(R, R.handles[h].id, R.handles[h].write_trust_seed,
                              R.handles[h].version + 1, R.res.blob),
                  LAMBDA U : Return([U EXCEPT !.handles[h].dirty = TRUE], None))))

\* File.restore(version)
restore(S, h, version) ==
    RestoreVersion(S, h, IF version = None THEN get_version(S.handles[h]) - 1 ELSE version)

\* The end of reencrypt with the File keeping its old key while the new vlob
\* is encrypted with the new one: a variant.
ReencryptBlobOldKey(S, h, new_blob) ==
    Let1(EVlobCreate([S EXCEPT !.fresh.key = @ + 1],
                     ToJsonb64(Encrypt(S.fresh.key, new_blob))),
         LAMBDA N :
           [N EXCEPT !.files = Put(Del(@, S.handles[h].id), N.res.id, h),
                     !.handles[h].id = N.res.id,
                     !.handles[h].read_trust_seed = N.res.read_trust_seed,
                     !.handles[h].write_trust_seed = N.res.write_trust_seed,
                     !.handles[h].dirty = TRUE,
                     !.res = None])

\* The end of reencrypt without "del File.files[self.id]": a variant.
ReencryptBlobKeepEntry(S, h, new_blob) ==
    Let1(EVlobCreate([S EXCEPT !.fresh.key = @ + 1, !.handles[h].encryptor = S.fresh.key],
                     ToJsonb64(Encrypt(S.fresh.key, new_blob))),
         LAMBDA N :
           [N EXCEPT !.files = Put(@, N.res.id, h),
                     !.handles[h].id = N.res.id,
                     !.handles[h].read_trust_seed = N.res.read_trust_seed,
                     !.handles[h].write_trust_seed = N.res.write_trust_seed,
                     !.handles[h].dirty = TRUE,
                     !.res = None])

\* The end of reencrypt (lines 211-220), new_blob being the payload decrypted.
ReencryptBlob(S, h, new_blob) ==
    Let1(EVlobCreate([S EXCEPT !.fresh.key = @ + 1, !.handles[h].encryptor = S.fresh.key],
                     ToJsonb64(Encrypt(S.fresh.key, new_blob))),
         LAMBDA N :
           [N EXCEPT !.files = Put(Del(@, S.handles[h].id), N.res.id, h),
                     !.handles[h].id = N.res.id,
                     !.handles[h].read_trust_seed = N.res.read_trust_seed,
                     !.handles[h].write_trust_seed = N.res.write_trust_seed,
                     !.handles[h].dirty = TRUE,
                     !.res = None])

\* File.reencrypt
reencrypt(S, h) ==
    Then(flush(S, h), LAMBDA F :
      Then(EVlobRead(F, F.handles[h].id, F.handles[h].read_trust_seed,
                     get_version(F.handles[h])),
           LAMBDA O :
             IF ~DecryptOk(O.handles[h].encryptor, FromJsonb64(O.res.blob))
             THEN Raise(O, "integrity_error")
             ELSE ReencryptBlob(O, h, Decrypt(O.handles[h].encryptor,
                                              FromJsonb64(O.res.blob)))))

\* The File made by create or load, put in handles and in the registry; res is
\* its index.
Register(S, self) ==
    [S EXCEPT !.handles = Append(@, self),
              !.files = Put(@, self.id, Len(S.handles) + 1),
              !.res = Len(S.handles) + 1]

\* File.create; res is the index of the new File
create(S) ==
    Let1(build_file_blocks(S, 0, <<>>), LAMBDA B :
      Let1(EVlobCreate([B EXCEPT !.fresh.key = @ + 1],
                       ToJsonb64(Encrypt(B.fresh.key, EjsonDumps(<<B.res>>)))),
           LAMBDA V :
             Register(V, [id |-> V.res.id, read_trust_seed |-> V.res.read_trust_seed,
                          write_trust_seed |-> V.res.write_trust_seed,
                          encryptor |-> B.fresh.key,
                          version |-> 0, dirty |-> TRUE, modifications |-> <<>>])))

\* load when the id is not registered (lines 83-97), vlob being the answer of
\* EVlobRead and vlob_list the answer of EVlobList
LoadNew(S, id, key, read_trust_seed, write_trust_seed, vlob, vlob_list) ==
    Register(S, [id |-> id, read_trust_seed |-> read_trust_seed,
                 write_trust_seed |-> write_trust_seed, encryptor |-> FromJsonb64(key),
                 version |-> IF vlob.id \in vlob_list THEN vlob.version - 1 ELSE vlob.version,
                 dirty |-> vlob.id \in vlob_list, modifications |-> <<>>])

\* load without the lookup of File.files (lines 80-81): a variant.
load_unregistered(S, id, key, read_trust_seed, write_trust_seed, version) ==
    Then(EVlobRead(S, id, read_trust_seed, version), LAMBDA V :
      Let1(EVlobList(V), LAMBDA L :
        LoadNew(L, id, key, read_trust_seed, write_trust_seed, V.res, L.res)))

\* File.load(id, key, read_trust_seed, write_trust_seed, version); res is the
\* index of the File returned
load(S, id, key, read_trust_seed, write_trust_seed, version) ==
    IF id \in DOMAIN S.files THEN Return(S, S.files[id])
    ELSE Then(EVlobRead(S, id, read_trust_seed, version), LAMBDA V :
           Let1(EVlobList(V), LAMBDA L :
             LoadNew(L, id, key, read_trust_seed, write_trust_seed, V.res, L.res)))

----------------------------------------------------------------------------
(* The operations as actions.  Every write carries the number of the       *)
(* operation as the value of all its bytes.                                *)

\* The state record an operation leaves becomes the next state; what is the
\* name of the operation, its File and arguments and how it ended.
Install(S, what) ==
    /\ handles' = S.handles
    /\ files' = S.files
    /\ blocks_local' = S.bl
    /\ blocks_backend' = S.bb
    /\ vlobs_local' = S.vl
    /\ vlobs_backend' = S.vb
    /\ fresh' = S.fresh
    /\ log' = S.log
    /\ last' = what @@ [exc |-> S.exc]
    /\ fops' = fops + 1

\* The reference buffer: write(data, offset) and truncate(length) on bytes.
RefWrite(buf, data, offset) == PyTo(buf, offset) \o data \o PyFrom(buf, offset + Len(data))
RefTruncate(buf, length) == PyTo(buf, length)

\* The block groups a vlob payload holds.
VlobPayload(blob) == EjsonLoads(FromJsonb64(blob).cleartext)

\* The key and seeds the holder of vlob id's descriptor (get_vlob) has.
VlobKey(id) ==
    IF id \in DOMAIN vlobs_local THEN ToJsonb64(FromJsonb64(vlobs_local[id].blob).key)
    ELSE IF id \in DOMAIN vlobs_backend THEN ToJsonb64(FromJsonb64(vlobs_backend[id][1]).key)
    ELSE ToJsonb64(0)

Create ==
    LET R == create(Cur)
    IN  /\ Install(R, [op |-> "create", h |-> R.res])
        /\ ref' = Append(ref, <<>>)

Load(id, good, version) ==
    LET R == IF good
             THEN load(Cur, id, VlobKey(id), ReadSeed(id), WriteSeed(id), version)
             ELSE load(Cur, id, ToJsonb64(0), ReadSeed(0), WriteSeed(0), version)
    IN  /\ Install(R, [op |-> "load", h |-> IF Ok(R) THEN R.res ELSE 0, id |-> id,
                       good |-> good, hit |-> id \in DOMAIN files])
        /\ ref' = IF Len(R.handles) > Len(handles) THEN Append(ref, <<>>) ELSE ref

Write(h, n, offset) ==
    LET data == TagData(fops + 1, n)
    IN  /\ Install(write(Cur, h, data, offset), [op |-> "write", h |-> h])
        /\ ref' = [ref EXCEPT ![h] = RefWrite(@, data, offset)]

Truncate(h, length) ==
    /\ Install(truncate(Cur, h, length), [op |-> "truncate", h |-> h])
    /\ ref' = [ref EXCEPT ![h] = RefTruncate(@, length)]

Flush(h) ==
    /\ Install(flush(Cur, h), [op |-> "flush", h |-> h])
    /\ UNCHANGED ref

Read(h, size, offset) ==
    LET R == read(Cur, h, size, offset)
    IN  /\ Install(R, [op |-> "read", h |-> h, size |-> size, offset |-> offset,
                       data |-> IF Ok(R) THEN R.res ELSE <<>>])
        /\ UNCHANGED ref

Commit(h, fault, substitute) ==
    LET R == commit(Cur, h, fault, substitute)
    IN  /\ Install(R, [op |-> "commit", h |-> h,
                       ret |-> IF Ok(R) THEN R.res ELSE [status |-> "raised"]])
        /\ UNCHANGED ref

Discard(h) ==
    LET R == discard(Cur, h)
    IN  /\ Install(R, [op |-> "discard", h |-> h, ret |-> Ok(R) /\ R.res])
        /\ UNCHANGED ref

Restore(h, version) ==
    /\ Install(restore(Cur, h, version), [op |-> "restore", h |-> h, version |-> version])
    /\ UNCHANGED ref

Reencrypt(h) ==
    /\ Install(reencrypt(Cur, h), [op |-> "reencrypt", h |-> h])
    /\ UNCHANGED ref

----------------------------------------------------------------------------
(* SpecRW: one File from File.create(), then writes, truncates, flushes    *)
(* and whole-file reads.                                                   *)

\* Largest length of the data of one write.
RWMaxLen == 2
\* Largest length given to truncate.
RWMaxTrunc == 2
\* Number of operations after create.
RWMaxOps == 4

Idle == [handles |-> <<>>, files |-> <<>>, bl |-> <<>>, bb |-> <<>>, vl |-> <<>>,
         vb |-> <<>>, fresh |-> [block |-> 1, vlob |-> 1, key |-> 1],
         log |-> <<>>, exc |-> "none", res |-> None, down |-> FALSE]

CBIdle ==
    /\ contents = <<>>
    /\ shadow = [p \in CBPositions |-> 0]
    /\ cbn = 0
    /\ cbtrunc = FALSE
    /\ IdentityIdle

RWInit ==
    LET R == create(Idle)
    IN  /\ CBIdle
        /\ handles = R.handles
        /\ files = R.files
        /\ blocks_local = R.bl
        /\ blocks_backend = R.bb
        /\ vlobs_local = R.vl
        /\ vlobs_backend = R.vb
        /\ fresh = R.fresh
        /\ log = R.log
        /\ last = [op |-> "create", h |-> 1, exc |-> "none"]
        /\ ref = << <<>> >>
        /\ fops = 0
        /\ task = NoTask
        /\ serial = NoTask

RWWrite ==
    \E n \in 0..RWMaxLen, offset \in 0..Len(ref[1]) :
        fops < RWMaxOps /\ Write(1, n, offset) /\ UNCHANGED <<cbvars, taskvars>>

RWTruncate ==
    \E length \in 0..RWMaxTrunc :
        fops < RWMaxOps /\ Truncate(1, length) /\ UNCHANGED <<cbvars, taskvars>>

RWFlush == fops < RWMaxOps /\ Flush(1) /\ UNCHANGED <<cbvars, taskvars>>

RWRead == fops < RWMaxOps /\ Read(1, None, 0) /\ UNCHANGED <<cbvars, taskvars>>

RWNext == RWWrite \/ RWTruncate \/ RWFlush \/ RWRead

SpecRW == RWInit /\ [][RWNext]_vars

\* What read() returns in the current state on File h (read flushes first).
ReadAll(h) == read(Cur, h, None, 0)

\* C1: for every sequence of writes (offset not beyond the end of file) and
\* truncates on a File from File.create(), after flush, a read of the whole file returns the bytes the reference
\* buffer holds after the same writes and truncates.
C1_ReadEqualsReference ==
    (last.op = "flush" /\ last.exc = "none")
        => (Ok(ReadAll(1)) /\ ReadAll(1).res = ref[1])

----------------------------------------------------------------------------
(* SpecFile: the life of Files: create, load, write, truncate, flush,      *)
(* commit, discard, restore and reencrypt, on every File made.             *)

\* Number of operations in one run.
FMaxOps == 6
\* Number of File objects made in one run.
FMaxHandles == 2

\* Lengths of the data of a write, offsets of a write and lengths of a
\* truncate, versions asked of load and restore, faults of a commit.
FLengths == {1}
FOffsets == {0, 1}
FVersions == {None, 1, 2}
FFaults == {0, 1, 2}

FInit == CBIdle /\ FileIdle

Handles == 1..Len(handles)

FCreate ==
    fops < FMaxOps /\ Len(handles) < FMaxHandles /\ Create /\ UNCHANGED <<cbvars, taskvars>>

FLoad ==
    \E id \in 1..(fresh.vlob - 1), good \in BOOLEAN, version \in FVersions :
        /\ fops < FMaxOps
        /\ id \in DOMAIN files \/ Len(handles) < FMaxHandles
        /\ Load(id, good, version)
        /\ UNCHANGED <<cbvars, taskvars>>

FWrite ==
    \E h \in Handles, n \in FLengths, offset \in FOffsets :
        fops < FMaxOps /\ Write(h, n, offset) /\ UNCHANGED <<cbvars, taskvars>>

FTruncate ==
    \E h \in Handles, length \in FOffsets :
        fops < FMaxOps /\ Truncate(h, length) /\ UNCHANGED <<cbvars, taskvars>>

FFlush == \E h \in Handles : fops < FMaxOps /\ Flush(h) /\ UNCHANGED <<cbvars, taskvars>>

FCommit ==
    \E h \in Handles, fault \in FFaults, substitute \in BOOLEAN :
        fops < FMaxOps /\ Commit(h, fault, substitute) /\ UNCHANGED <<cbvars, taskvars>>

FDiscard == \E h \in Handles : fops < FMaxOps /\ Discard(h) /\ UNCHANGED <<cbvars, taskvars>>

FRestore ==
    \E h \in Handles, version \in FVersions :
        fops < FMaxOps /\ Restore(h, version) /\ UNCHANGED <<cbvars, taskvars>>

FReencrypt == \E h \in Handles : fops < FMaxOps /\ Reencrypt(h) /\ UNCHANGED <<cbvars, taskvars>>

FNext ==
    \/ FCreate \/ FLoad \/ FWrite \/ FTruncate \/ FFlush
    \/ FCommit \/ FDiscard \/ FRestore \/ FReencrypt

SpecFile == FInit /\ [][FNext]_vars

----------------------------------------------------------------------------
(* Properties of the File life cycle (SpecFile).                           *)

\* The step is operation op of the File engine.
Did(op) == fops' = fops + 1 /\ last'.op = op

\* C4: File.files maps each key id to a handle whose id is that key, no two
\* handles have the same id, and load of a registered id returns the handle
\* registered, making no other and changing nothing, whatever key, seeds or
\* version are passed.
C4_RegistryIdentity ==
    [][/\ \A id \in DOMAIN files' : handles'[files'[id]].id = id
       /\ \A h1, h2 \in 1..Len(handles') :
              handles'[h1].id = handles'[h2].id => h1 = h2
       /\ (Did("load") /\ last'.id \in DOMAIN files)
              => /\ last'.exc = "none"
                 /\ last'.h = files[last'.id]
                 /\ handles' = handles
                 /\ files' = files]_vars

\* A load of a registered id with a wrong key and wrong seeds has returned the
\* handle registered.
C4_LoadHit ==
    /\ last.op = "load" /\ last.hit /\ ~last.good /\ last.exc = "none"
    /\ last.h = files[last.id]
    /\ Len(handles) = 1

\* C5: between operations, handle.version is the number of committed versions
\* of the vlob handle.id on the backend.
C5_VersionIsCommitted ==
    \A h \in Handles : handles[h].version = Committed(vlobs_backend, handles[h].id)

\* C6: between operations, handle.dirty holds exactly when the Synchronizer
\* holds a staged update of the vlob or the modification queue is not empty.
C6_DirtyIffStagedOrPending ==
    \A h \in Handles :
        handles[h].dirty <=> (\/ handles[h].id \in DOMAIN vlobs_local
                              \/ handles[h].modifications # <<>>)

\* C7: every EVlobUpdate issued carries the committed version of its vlob
\* plus one.
C7_UpdateTargetsNextVersion ==
    \A i \in 1..Len(log) :
        log[i].e = "VlobUpdate" => log[i].version = log[i].committed + 1

\* C8: in a commit, EVlobSynchronize is issued only when no EBlockSynchronize
\* of that commit has failed, and after an EBlockSynchronize that succeeded
\* for every block id the vlob version being pushed references.
C8_BlocksBeforeVlob ==
    last.op = "commit" =>
        \A i \in 1..Len(log) :
            log[i].e = "VlobSynchronize" =>
                /\ \A j \in 1..Len(log) : log[j].e = "BlockSynchronize" => log[j].ok
                /\ log[i].staged =>
                     \A b \in BlobBlockIds(VlobPayload(log[i].blob)) :
                         \E j \in 1..(i - 1) :
                             /\ log[j].e = "BlockSynchronize"
                             /\ log[j].id = b
                             /\ log[j].ok

\* C9: a commit whose EVlobSynchronize returns true adds one to handle.version
\* and clears dirty; one whose EVlobSynchronize returns a falsy value leaves
\* handle.version, id and both trust seeds as they were.
C9_CommitTrueOrFalsy ==
    [][(Did("commit") /\ last'.exc = "none")
          => LET old == handles[last'.h]
                 new == handles'[last'.h]
             IN  /\ last'.ret.status = "true"
                       => new.version = old.version + 1 /\ ~new.dirty
                 /\ last'.ret.status = "false"
                       => /\ new.version = old.version
                          /\ new.id = old.id
                          /\ new.read_trust_seed = old.read_trust_seed
                          /\ new.write_trust_seed = old.write_trust_seed]_vars

\* A second commit of a File has returned true: its version is 2.
C9_SecondCommit ==
    /\ last.op = "commit" /\ last.exc = "none" /\ last.ret.status = "true"
    /\ handles[last.h].version = 2
    /\ ~handles[last.h].dirty

\* C10: a commit whose EVlobSynchronize returns a new identity removes the old
\* id from File.files, registers the same handle under the new id, gives the
\* handle the new id and trust seeds, adds one to version, clears dirty and
\* returns the new vlob descriptor.
C10_CommitNewIdentity ==
    [][(Did("commit") /\ last'.exc = "none" /\ last'.ret.status = "new")
          => LET old == handles[last'.h]
                 new == handles'[last'.h]
                 id == fresh.vlob
             IN  /\ old.id # id
                 /\ old.id \notin DOMAIN files'
                 /\ id \in DOMAIN files' /\ files'[id] = last'.h
                 /\ Len(handles') = Len(handles)
                 /\ new.id = id
                 /\ new.read_trust_seed = ReadSeed(id)
                 /\ new.write_trust_seed = WriteSeed(id)
                 /\ new.version = old.version + 1
                 /\ ~new.dirty
                 /\ last'.ret.vlob = [id |-> id, read_trust_seed |-> ReadSeed(id),
                                      write_trust_seed |-> WriteSeed(id),
                                      key |-> ToJsonb64(old.encryptor)]]_vars

\* A commit has returned a new identity and the File is registered under it.
C10_Substituted ==
    /\ last.op = "commit" /\ last.exc = "none" /\ last.ret.status = "new"
    /\ handles[last.h].id = last.ret.vlob.id
    /\ files[last.ret.vlob.id] = last.h

\* What an operation leaves, its effects and the value it returns apart.
Outcome(S) == [handles |-> S.handles, files |-> S.files, bl |-> S.bl, bb |-> S.bb,
               vl |-> S.vl, vb |-> S.vb, exc |-> S.exc]

\* The block ids of the vlob version File self reads (EVlobRead at
\* get_version()), S being a state where that version exists.
CurrentBlockIds(S, self) ==
    BlobBlockIds(VlobPayload(EVlobRead(S, self.id, self.read_trust_seed,
                                       get_version(self)).res.blob))

\* retry, a commit after a failed one, has ended as direct, the same commit
\* without the failure, and has requested EBlockSynchronize for every block
\* id of ids and EVlobSynchronize(id).
Retried(direct, retry, ids, id) ==
    \A d \in {direct}, r \in {retry} :
        /\ Outcome(r) = Outcome(d)
        /\ Ok(r) => r.res = d.res
        /\ \E i \in 1..Len(r.log) : r.log[i].e = "VlobSynchronize" /\ r.log[i].id = id
        /\ \A b \in ids :
               \E i \in 1..Len(r.log) : r.log[i].e = "BlockSynchronize" /\ r.log[i].id = b

\* C11: a commit that fails because the backend is unavailable leaves
\* handle.version as it was and dirty true, the vlob update is still staged,
\* and a commit issued next with the backend available requests
\* EBlockSynchronize for every current block and EVlobSynchronize, and ends
\* as the failed commit would have ended with the backend available.
C11_FailedCommitRetry ==
    [][(Did("commit") /\ last'.exc = "backend_unavailable")
          => LET h == last'.h
                 old == handles[h]
                 new == handles'[h]
             IN  /\ new.version = old.version
                 /\ new.id = old.id
                 /\ (old.dirty \/ old.modifications # <<>>) => new.dirty
                 /\ (old.id \in DOMAIN vlobs_local \/ old.modifications # <<>>)
                        => new.id \in DOMAIN vlobs_local'
                 /\ Retried(commit(Cur, h, 0, FALSE), commit(Cur', h, 0, FALSE),
                            CurrentBlockIds(Cur', new), new.id)]_vars

\* A commit of a File with two blocks has failed on the second block: the
\* first block is on the backend, the second and the vlob update are staged.
C11_FailedOnSecondBlock ==
    /\ last.op = "commit" /\ last.exc = "backend_unavailable"
    /\ Len(log) = 2 /\ log[1].ok /\ ~log[2].ok
    /\ handles[last.h].dirty
    /\ handles[last.h].id \in DOMAIN vlobs_local
    /\ log[1].id \in DOMAIN blocks_backend
    /\ log[2].id \in DOMAIN blocks_local

\* Effect e is among the effects of the last operation.
Issued(e) == \E i \in 1..Len(log) : log[i].e = e

\* C12: an operation other than commit (create, load, write, truncate, flush,
\* discard, restore, reencrypt) requests no EBlockSynchronize and no
\* EVlobSynchronize and leaves the blocks and the vlob versions the backend
\* holds as they were.
C12_OnlyCommitPushes ==
    [][(fops' = fops + 1 /\ last'.op # "commit")
          => /\ ~Issued("BlockSynchronize")' /\ ~Issued("VlobSynchronize")'
             /\ blocks_backend' = blocks_backend
             /\ vlobs_backend' = vlobs_backend]_vars

\* A restore has staged an update of a vlob that has committed versions, and
\* the backend holds its blocks.
C12_RestoreStaged ==
    /\ last.op = "restore" /\ last.exc = "none"
    /\ Issued("VlobUpdate")
    /\ handles[last.h].id \in DOMAIN vlobs_local
    /\ Committed(vlobs_backend, handles[last.h].id) >= 1
    /\ blocks_backend # <<>>

\* Number of EBlockDelete(b) among the effects lg.
Deletes(lg, b) == Cardinality({i \in 1..Len(lg) : lg[i].e = "BlockDelete" /\ lg[i].id = b})

\* C13: a flush with pending modifications never ends in BlockNotFound, and
\* when it returns it has issued EBlockDelete exactly once for each block id
\* the vlob referenced before and does not reference after, and for no block
\* id the vlob references after.
C13_FlushDeletesDroppedBlocks ==
    [][(Did("flush") /\ handles[last'.h].modifications # <<>>)
          => /\ last'.exc # "block_not_found"
             /\ last'.exc = "none"
                  => LET before == CurrentBlockIds(Cur, handles[last'.h])
                         after == CurrentBlockIds(Cur', handles'[last'.h])
                     IN  /\ \A b \in before \ after : Deletes(log', b) = 1
                         /\ \A b \in after : Deletes(log', b) = 0]_vars

\* A flush has replaced a block the backend holds: its EBlockDelete was
\* answered BlockNotFound and the flush returned.
C13_DeletedCommittedBlock ==
    /\ last.op = "flush" /\ last.exc = "none"
    /\ \E i \in 1..Len(log) :
           /\ log[i].e = "BlockDelete"
           /\ log[i].id \in DOMAIN blocks_backend
           /\ log[i].id \notin CurrentBlockIds(Cur, handles[last.h])

\* The version a restore step aims at: the one given, or get_version() - 1.
RestoreTarget(self, version) == IF version = None THEN get_version(self) - 1 ELSE version

\* C14: restore(version) with version < 1 or version >= get_version(), the
\* default version included, raises bad_version, issues no effect and leaves
\* the handle (modifications, version, dirty), the registry and the stores
\* as they were.
C14_RestoreBadVersion ==
    [][(/\ Did("restore")
        /\ \/ RestoreTarget(handles[last'.h], last'.version) < 1
           \/ RestoreTarget(handles[last'.h], last'.version) >= get_version(handles[last'.h]))
          => /\ last'.exc = "bad_version"
             /\ log' = <<>>
             /\ UNCHANGED <<handles, files, blocks_local, blocks_backend,
                            vlobs_local, vlobs_backend>>]_vars

\* restore() with the default version on a File whose get_version() is 1 and
\* which has a pending modification has raised bad_version.
C14_DefaultOnFirstVersion ==
    /\ last.op = "restore" /\ last.exc = "bad_version" /\ last.version = None
    /\ get_version(handles[last.h]) = 1
    /\ handles[last.h].modifications # <<>>

\* C15: a restore issues no EBlockDelete and no EVlobDelete.
C15_RestoreDeletesNothing ==
    (last.op = "restore" /\ last.exc = "none")
        => ~Issued("BlockDelete") /\ ~Issued("VlobDelete")

\* The bytes a vlob blob stands for: the cleartext of its blocks, in order,
\* taken from the block stores bl and bb.
RECURSIVE ItemsContent(_, _, _, _)
ItemsContent(bl, bb, items, i) ==
    IF i > Len(items) THEN <<>>
    ELSE FromJsonb64(IF items[i].bp.block \in DOMAIN bl THEN bl[items[i].bp.block]
                     ELSE bb[items[i].bp.block]).cleartext
            \o ItemsContent(bl, bb, items, i + 1)

BlobContent(bl, bb, blob) == ItemsContent(bl, bb, BlobItems(VlobPayload(blob), 1), 1)

\* C16: a restore(k) that returns has staged, as version handle.version + 1,
\* the blob committed as version k, and a read() issued next returns the
\* content committed at version k.
C16_RestoreBringsBack ==
    [][(/\ Did("restore") /\ last'.exc = "none"
        /\ RestoreTarget(handles[last'.h], last'.version)
              <= Committed(vlobs_backend, handles[last'.h].id))
          => LET h == last'.h
                 id == handles[h].id
                 k == RestoreTarget(handles[h], last'.version)
             IN  /\ handles'[h].id = id
                 /\ id \in DOMAIN vlobs_local'
                 /\ vlobs_local'[id].version = handles[h].version + 1
                 /\ vlobs_local'[id].blob = vlobs_backend[id][k]
                 /\ \A r \in {read(Cur', h, None, 0)} :
                        /\ Ok(r)
                        /\ r.res = BlobContent(blocks_local, blocks_backend,
                                               vlobs_backend[id][k])]_vars

\* restore(1) has returned on a File committed twice, with one byte as
\* version 1 and another as version 2.
C16_RestoredFirstOfTwo ==
    /\ last.op = "restore" /\ last.exc = "none" /\ last.version = 1
    /\ handles[last.h].version = 2
    /\ Committed(vlobs_backend, handles[last.h].id) = 2
    /\ Len(BlobContent(blocks_local, blocks_backend,
                        vlobs_backend[handles[last.h].id][1])) = 1
    /\ BlobContent(blocks_local, blocks_backend, vlobs_backend[handles[last.h].id][1])
         # BlobContent(blocks_local, blocks_backend, vlobs_backend[handles[last.h].id][2])

\* C17: the operation that follows a discard of a File, on the same File or
\* its id (load, commit, restore, reencrypt), fails with vlob_not_found.
C17_FailsAfterDiscard ==
    [][(/\ last.op = "discard" /\ last.exc = "none"
        /\ fops' = fops + 1
        /\ \/ last'.op = "load" /\ last'.id = handles[last.h].id
           \/ last'.op \in {"commit", "restore", "reencrypt"} /\ last'.h = last.h)
          => last'.exc = "vlob_not_found"]_vars

\* C18: a discard that returns, returns true exactly when it has removed a
\* block or the vlob from what is staged.
C18_DiscardTrueIffRemoved ==
    [][(Did("discard") /\ last'.exc = "none")
          => (last'.ret <=> (\/ DOMAIN blocks_local' # DOMAIN blocks_local
                             \/ DOMAIN vlobs_local' # DOMAIN vlobs_local))]_vars

\* C19: after a discard that returns, File.files has no entry for the id of
\* the File discarded.
C19_DiscardReleasesHandle ==
    (last.op = "discard" /\ last.exc = "none") => handles[last.h].id \notin DOMAIN files

----------------------------------------------------------------------------
(* SpecRead: reads of every range of a File whose content was laid out in  *)
(* blocks by rounds of write-and-flush and truncate-and-flush.             *)

\* Number of rounds that lay the File out.
LMaxRounds == 3
\* Largest length of the data of a write of a round.
LMaxLen == 2
\* Largest length given to a truncate of a round.
LMaxTrunc == 2
\* Largest size and largest offset given to read.
LMaxSize == 3
LMaxOff == 3
\* Number of reads in one run.
LMaxReads == 1

\* The flushed content of File h in state S: the bytes of the vlob version
\* the File reads.
FlushedContent(S, h) ==
    BlobContent(S.bl, S.bb, EVlobRead(S, S.handles[h].id, S.handles[h].read_trust_seed,
                                      get_version(S.handles[h])).res.blob)

\* The states one round leads to from S: a write of bytes k within or at
\* the end of the content, or a truncate, followed by flush.
Round(S, k) ==
    {flush(write(S, 1, TagData(k, n[1]), n[2]), 1) :
        n \in (1..LMaxLen) \X (0..Len(FlushedContent(S, 1)))}
    \cup {flush(truncate(S, 1, length), 1) : length \in 0..LMaxTrunc}

\* The states after at most n rounds on a File from File.create().
RECURSIVE Layouts(_)
Layouts(n) ==
    IF n = 0 THEN {create(Idle)}
    ELSE Layouts(n - 1) \cup UNION {Round(S, n) : S \in Layouts(n - 1)}

LInit ==
    \E S \in Layouts(LMaxRounds) :
        /\ CBIdle
        /\ handles = S.handles
        /\ files = S.files
        /\ blocks_local = S.bl
        /\ blocks_backend = S.bb
        /\ vlobs_local = S.vl
        /\ vlobs_backend = S.vb
        /\ fresh = S.fresh
        /\ log = <<>>
        /\ last = [op |-> "flush", h |-> 1, exc |-> S.exc]
        /\ ref = <<FlushedContent(S, 1)>>
        /\ fops = 0
        /\ task = NoTask
        /\ serial = NoTask

LRead ==
    \E size \in {None} \cup (0..LMaxSize), offset \in 0..LMaxOff :
        fops < LMaxReads /\ Read(1, size, offset) /\ UNCHANGED <<cbvars, taskvars>>

LNext == LRead

SpecRead == LInit /\ [][LNext]_vars

\* C20: read(size, offset) returns the bytes offset .. offset + size of the
\* flushed content, and read(None, offset) the bytes from offset on.
C20_ReadIsSlice ==
    last.op = "read"
        => /\ last.exc = "none"
           /\ last.data = IF last.size = None THEN PyFrom(ref[last.h], last.offset)
                          ELSE PySlice(ref[last.h], last.offset, last.offset + last.size)

\* A read has returned one byte from inside a block of two bytes that follows
\* a block of no bytes.
C20_InsideBlock ==
    /\ last.op = "read" /\ last.exc = "none"
    /\ last.size = 1 /\ last.offset = 1 /\ Len(last.data) = 1
    /\ \E items \in {BlobItems(VlobPayload(vlobs_local[handles[1].id].blob), 1)} :
           /\ Len(items) >= 2
           /\ items[1].bp.size = 0
           /\ items[2].bp.size = 2

----------------------------------------------------------------------------
(* SpecIntegrity: reads of a laid-out File after the block store has come  *)
(* to hold, for one block, a ciphertext of the block's key whose cleartext *)
(* is not the one BlockMeta describes (as the ciphertext of a sibling      *)
(* block of the same group, which shares the key, lines 329-333).          *)

\* The cleartext that EBlockRead and decryption give for block item it.
StoredCleartext(S, it) == Decrypt(FromJsonb64(it.key), FromJsonb64(EBlockRead(S, it.bp.block).res.content))

\* The stored block fails the check of read (lines 140-141).
BadBlock(S, it) ==
    \/ Digest(StoredCleartext(S, it)) # it.bp.digest
    \/ Len(StoredCleartext(S, it)) # it.bp.size

\* The blocks of the vlob version File h reads, in order.
CurrentItems(S, h) ==
    BlobItems(VlobPayload(EVlobRead(S, S.handles[h].id, S.handles[h].read_trust_seed,
                                    get_version(S.handles[h])).res.blob), 1)

\* The store replaces the content of block i of File 1 by a ciphertext of
\* the same key: other bytes of the same length, or one byte more.
ICorrupt ==
    /\ fops = 0
    /\ \A j \in 1..Len(CurrentItems(Cur, 1)) : ~BadBlock(Cur, CurrentItems(Cur, 1)[j])
    /\ \E i \in 1..Len(CurrentItems(Cur, 1)), longer \in BOOLEAN :
          LET it == CurrentItems(Cur, 1)[i]
              clear == StoredCleartext(Cur, it)
              other == IF longer THEN clear \o <<0>> ELSE [p \in 1..Len(clear) |-> 0]
          IN  /\ other # clear
              /\ it.bp.block \in DOMAIN blocks_local
              /\ blocks_local' = Put(blocks_local, it.bp.block,
                                     ToJsonb64(Encrypt(FromJsonb64(it.key), other)))
    /\ UNCHANGED <<handles, files, blocks_backend, vlobs_local, vlobs_backend,
                   fresh, log, last, ref, fops>>
    /\ UNCHANGED <<cbvars, taskvars>>

INext == ICorrupt \/ LRead

SpecIntegrity == LInit /\ [][INext]_vars

\* The items of which at least one byte lies in the range lo .. hi, start
\* being the position of item i.
RECURSIVE Contributors(_, _, _, _, _)
Contributors(items, i, start, lo, hi) ==
    IF i > Len(items) THEN {}
    ELSE (IF start < hi /\ start + items[i].bp.size > lo /\ start + items[i].bp.size > start
          THEN {i} ELSE {})
         \cup Contributors(items, i + 1, start + items[i].bp.size, lo, hi)

\* C21: a read that returns takes no byte from a block whose stored
\* cleartext differs in digest or length from its BlockMeta, be the block
\* wholly inside the range read or across one of its edges.
C21_NoByteFromBadBlock ==
    [][(Did("read") /\ last'.exc = "none")
          => \A items \in {CurrentItems(Cur, last'.h)} :
               \A i \in Contributors(items, 1, 0, last'.offset,
                                     IF last'.size = None THEN sys_maxsize
                                     ELSE last'.offset + last'.size) :
                  ~BadBlock(Cur, items[i])]_vars

----------------------------------------------------------------------------
(* File.stat and the effective size.                                       *)

\* The sum of the declared sizes of the blocks (lines 160-163).
RECURSIVE SumSizes(_, _)
SumSizes(items, i) == IF i > Len(items) THEN 0 ELSE items[i].bp.size + SumSizes(items, i + 1)

\* The loop of stat over the pending modifications (lines 164-173).
RECURSIVE StatAdjust(_, _, _)
StatAdjust(mods, i, size) ==
    IF i > Len(mods) THEN size
    ELSE StatAdjust(mods, i + 1,
            IF mods[i].op = "write"
            THEN (IF size < mods[i].offset + Len(mods[i].data)
                  THEN mods[i].offset + Len(mods[i].data) ELSE size)
            ELSE (IF size > mods[i].length THEN mods[i].length ELSE size))

\* File.stat(): res is the record of the id, the size and the version.
stat(S, h) ==
    Then(EVlobRead(S, S.handles[h].id, S.handles[h].read_trust_seed,
                   get_version(S.handles[h])),
         LAMBDA V :
           IF ~DecryptOk(S.handles[h].encryptor, FromJsonb64(V.res.blob))
           THEN Raise(V, "integrity_error")
           ELSE Return(V, [id |-> S.handles[h].id,
                           size |-> StatAdjust(S.handles[h].modifications, 1,
                                               SumSizes(BlobItems(VlobPayload(V.res.blob), 1), 1)),
                           version |-> V.res.version]))

\* C22: the size stat() gives with a queue pending is the length of what
\* read() returns once that queue is flushed.
C22_StatIsEffectiveSize ==
    \A st \in {stat(Cur, 1)}, rd \in {ReadAll(1)} :
        (Ok(st) /\ Ok(rd)) => st.res.size = Len(rd.res)

----------------------------------------------------------------------------
(* Properties of write, truncate and reencrypt (SpecFile).                 *)

\* C23: write and truncate issue no effect and change nothing but the
\* modification queue of the handle, which gets exactly one entry more at
\* its end; the registry and the stores are left as they were.
C23_WriteOnlyAppends ==
    [][(Did("write") \/ Did("truncate"))
          => LET h == last'.h
                 q == handles'[h].modifications
             IN  /\ last'.exc = "none"
                 /\ log' = <<>>
                 /\ Len(q) = Len(handles[h].modifications) + 1
                 /\ q[Len(q)].op = last'.op
                 /\ handles' = [handles EXCEPT ![h].modifications = Append(@, q[Len(q)])]
                 /\ UNCHANGED <<files, blocks_local, blocks_backend,
                                vlobs_local, vlobs_backend>>]_vars

\* A truncate has been queued behind a write on a File that is not dirty.
C23_QueuedBehindWrite ==
    /\ last.op = "truncate"
    /\ ~handles[last.h].dirty
    /\ Len(handles[last.h].modifications) = 2
    /\ handles[last.h].modifications[1].op = "write"

\* C24: a reencrypt that returns leaves the content as it was: whenever a
\* read of the whole File before it would have returned, a read after it
\* returns the same bytes.
C24_ReencryptKeepsContent ==
    [][(Did("reencrypt") /\ last'.exc = "none")
          => \A before \in {read(Cur, last'.h, None, 0)}, after \in {read(Cur', last'.h, None, 0)} :
                Ok(before) => (Ok(after) /\ after.res = before.res)]_vars

\* A File written, committed and reencrypted holds one byte.
C24_ReencryptedCommitted ==
    /\ last.op = "reencrypt" /\ last.exc = "none"
    /\ handles[last.h].version = 1
    /\ Len(ReadAll(last.h).res) = 1

\* The entries of log lg that record effect e.
LogOf(lg, e) == {i \in 1..Len(lg) : lg[i].e = e}

\* C25: a reencrypt that returns has issued one EVlobCreate and no
\* EVlobDelete; the old vlob is still there, the registry has no entry under
\* the old id and maps the new id to the handle, and the handle carries the
\* id and the trust seeds the create answered and a key generated for it.
C25_ReencryptRekeys ==
    [][(Did("reencrypt") /\ last'.exc = "none")
          => LET h == last'.h  old == handles[h]  new == handles'[h]
             IN  /\ Cardinality(LogOf(log', "VlobCreate")) = 1
                 /\ LogOf(log', "VlobDelete") = {}
                 /\ VlobVersions(Cur', old.id) # {}
                 /\ old.id \notin DOMAIN files'
                 /\ new.id \in DOMAIN files' /\ files'[new.id] = h
                 /\ \A i \in LogOf(log', "VlobCreate") : new.id = log'[i].id
                 /\ new.id # old.id
                 /\ new.read_trust_seed = ReadSeed(new.id)
                 /\ new.write_trust_seed = WriteSeed(new.id)
                 /\ new.encryptor >= fresh.key
                 /\ DecryptOk(new.encryptor, FromJsonb64(vlobs_local'[new.id].blob))]_vars

\* A File with a committed version and a write pending has been
\* reencrypted, and its old vlob is on the backend.
C25_ReencryptedWithPending ==
    /\ last.op = "reencrypt" /\ last.exc = "none"
    /\ LogOf(log, "VlobUpdate") # {}
    /\ \E id \in DOMAIN vlobs_backend : id \notin DOMAIN files

----------------------------------------------------------------------------
(* SpecFault: one File, with flushes and restores whose EVlobUpdate the    *)
(* Synchronizer may refuse (backend_unavailable).                          *)

\* Number of operations after create.
UMaxOps == 5
\* Largest length of the data of one write and largest offset.
UMaxLen == 1
UMaxOff == 1

UWrite ==
    \E n \in 1..UMaxLen, offset \in 0..UMaxOff :
        fops < UMaxOps /\ Write(1, n, offset) /\ UNCHANGED <<cbvars, taskvars>>

UTruncate ==
    \E length \in 0..UMaxOff : fops < UMaxOps /\ Truncate(1, length) /\ UNCHANGED <<cbvars, taskvars>>

UCommit == fops < UMaxOps /\ Commit(1, 0, FALSE) /\ UNCHANGED <<cbvars, taskvars>>

UFlush ==
    \E down \in BOOLEAN :
        /\ fops < UMaxOps
        /\ Install(flush([Cur EXCEPT !.down = down], 1), [op |-> "flush", h |-> 1])
        /\ UNCHANGED ref
        /\ UNCHANGED <<cbvars, taskvars>>

URestore ==
    \E version \in FVersions, down \in BOOLEAN :
        /\ fops < UMaxOps
        /\ Install(restore([Cur EXCEPT !.down = down], 1, version),
                   [op |-> "restore", h |-> 1, version |-> version])
        /\ UNCHANGED ref
        /\ UNCHANGED <<cbvars, taskvars>>

UNext == UWrite \/ UTruncate \/ UCommit \/ UFlush \/ URestore

SpecFault == RWInit /\ [][UNext]_vars

\* The operation of the step ended in the failure of an EVlobUpdate, the
\* last effect it issued.
UpdateFailed ==
    /\ last'.exc = "backend_unavailable"
    /\ log' # <<>>
    /\ log'[Len(log')].e = "VlobUpdate"

\* C27: when an EVlobUpdate issued by flush or restore fails, version and
\* dirty of the handle are afterwards what they were when the update was
\* issued.
C27_FailedUpdateKeepsVersionDirty ==
    [][((Did("flush") \/ Did("restore")) /\ UpdateFailed)
          => LET before == log'[Len(log')].at[last'.h]
             IN  /\ handles'[last'.h].version = before.version
                 /\ handles'[last'.h].dirty = before.dirty]_vars

\* The EVlobUpdate of a flush has failed on a File with a committed version.
C27_FlushUpdateFailed ==
    /\ last.op = "flush" /\ last.exc = "backend_unavailable"
    /\ log # <<>> /\ log[Len(log)].e = "VlobUpdate"
    /\ handles[1].version = 1

\* C28: a flush that fails keeps every modification that was pending: when
\* none of its EVlobUpdate has staged anything, the queue is what it was.
C28_FailedFlushKeepsQueue ==
    [][(Did("flush") /\ last'.exc # "none" /\ vlobs_local' = vlobs_local)
          => handles'[last'.h].modifications = handles[last'.h].modifications]_vars

----------------------------------------------------------------------------
(* SpecTasks: two tasks on one File.  The flush of the first is suspended  *)
(* at its requests; the second submits writes, truncates and flushes that  *)
(* run while the first is suspended.  serial is the state the same         *)
(* operations give when each runs alone, in the order of their submission. *)

\* Number of operations submitted.
TMaxOps == 4
\* Largest length of the data of one write and largest offset.
TMaxLen == 1
TMaxOff == 1

TInit ==
    LET R == create(Idle)
    IN  /\ CBIdle
        /\ handles = R.handles
        /\ files = R.files
        /\ blocks_local = R.bl
        /\ blocks_backend = R.bb
        /\ vlobs_local = R.vl
        /\ vlobs_backend = R.vb
        /\ fresh = R.fresh
        /\ log = R.log
        /\ last = [op |-> "create", h |-> 1, exc |-> "none"]
        /\ ref = << <<>> >>
        /\ fops = 0
        /\ task = NoTask
        /\ serial = R

\* The state after a part of the suspended flush, which is no submission.
Resume(S, what) ==
    /\ handles' = S.handles
    /\ files' = S.files
    /\ blocks_local' = S.bl
    /\ blocks_backend' = S.bb
    /\ vlobs_local' = S.vl
    /\ vlobs_backend' = S.vb
    /\ fresh' = S.fresh
    /\ log' = S.log
    /\ last' = what @@ [exc |-> S.exc]
    /\ UNCHANGED <<fops, ref, serial, cbvars>>

\* The vlob updates a flush has to make (lines 241 and 257): the truncate to
\* shortest_truncate if any, then one per region of the builder.
FlushItems(merged) ==
    (IF merged.shortest_truncate # None
     THEN <<[truncate |-> TRUE, length |-> merged.shortest_truncate]>> ELSE <<>>)
    \o [i \in 1..Len(merged.contents) |-> [truncate |-> FALSE, region |-> merged.contents[i]]]

\* The payload of the vlob update of one item, built from the vlob as it is
\* now (lines 242-246 and 259-266); res is the payload.
PrepareItem(S, h, item) ==
    IF item.truncate
    THEN Then(find_matching_blocks(S, h, item.length, 0), LAMBDA M :
           Let1(build_file_blocks(M, h, M.res.post_included_data), LAMBDA B :
             Return(B, M.res.included_blocks \o <<B.res>>)))
    ELSE Then(find_matching_blocks(S, h, Len(item.region.data), item.region.off), LAMBDA M :
           Let1(build_file_blocks(M, h, M.res.pre_excluded_data \o item.region.data
                                          \o M.res.post_excluded_data), LAMBDA B :
             Return(B, M.res.pre_excluded_blocks \o <<B.res>>
                         \o M.res.post_excluded_blocks)))

\* The second task submits a write, a truncate or a flush, which runs at once.
TWrite ==
    \E n \in 1..TMaxLen, offset \in 0..TMaxOff :
        /\ fops < TMaxOps
        /\ Write(1, n, offset)
        /\ serial' = write(serial, 1, TagData(fops + 1, n), offset)
        /\ UNCHANGED <<task, cbvars>>

TTruncate ==
    \E length \in 0..TMaxOff :
        /\ fops < TMaxOps
        /\ Truncate(1, length)
        /\ serial' = truncate(serial, 1, length)
        /\ UNCHANGED <<task, cbvars>>

TFlush ==
    /\ fops < TMaxOps
    /\ Flush(1)
    /\ serial' = flush(serial, 1)
    /\ UNCHANGED <<task, cbvars>>

\* The first task submits flush, which runs up to the answer of get_blocks
\* (lines 223-240).
TFlushBegin ==
    /\ task = NoTask
    /\ fops < TMaxOps
    /\ handles[1].modifications # <<>>
    /\ LET merged == MergeModifications(handles[1].modifications, 1, <<>>, None)
           P == get_blocks([Cur EXCEPT !.handles[1].modifications = <<>>], 1)
       IN  /\ Install(P, [op |-> "flush_begin", h |-> 1])
           /\ task' = IF Ok(P) THEN [pc |-> "body", items |-> FlushItems(merged), i |-> 1,
                                     previous |-> P.res, blob |-> <<>>]
                      ELSE NoTask
    /\ serial' = flush(serial, 1)
    /\ UNCHANGED <<ref, cbvars>>

\* The suspended flush goes on to the request of its next EVlobUpdate.
TFlushPrepare ==
    /\ task.pc = "body"
    /\ task.i <= Len(task.items)
    /\ LET R == PrepareItem(Cur, 1, task.items[task.i])
       IN  /\ Resume(R, [op |-> "flush_prepare", h |-> 1])
           /\ task' = IF Ok(R) THEN [task EXCEPT !.pc = "update", !.blob = R.res] ELSE NoTask

\* The EVlobUpdate requested is made (lines 251-255 and 271-275).
TFlushUpdate ==
    /\ task.pc = "update"
    /\ LET R == UpdateVlob(Cur, 1, task.blob)
       IN  /\ Resume(R, [op |-> "flush_update", h |-> 1])
           /\ task' = IF Ok(R) THEN [task EXCEPT !.pc = "body", !.i = @ + 1, !.blob = <<>>]
                      ELSE NoTask

\* The suspended flush ends with "Clean blocks" (lines 276-283).
TFlushClean ==
    /\ task.pc = "body"
    /\ task.i > Len(task.items)
    /\ LET R == Then(get_blocks(Cur, 1), LAMBDA N :
                  DeleteBlocks(N, task.previous, 1, {N.res[i] : i \in 1..Len(N.res)}, FALSE))
       IN  Resume(R, [op |-> "flush", h |-> 1])
    /\ task' = NoTask

TNext ==
    \/ TWrite \/ TTruncate \/ TFlush
    \/ TFlushBegin \/ TFlushPrepare \/ TFlushUpdate \/ TFlushClean

SpecTasks == TInit /\ [][TNext]_vars

\* C26: once the suspended flush has ended, the content of the File is the
\* content the same operations give when run one after the other in the
\* order of their submission.
C26_SubmissionOrder ==
    task = NoTask
        => \A now \in {ReadAll(1)}, alone \in {read(serial, 1, None, 0)} :
              (Ok(now) /\ Ok(alone)) => now.res = alone.res

----------------------------------------------------------------------------
(* SpecApi: the command envelope of core_api.py.  A JSON value is kept as  *)
(* what the code looks at: its type t, its size (the value of a number or  *)
(* boolean, the length of a string or list, the number of keys of an       *)
(* object) and, for an object, its cmd entry.    A dictionary is the set   *)
(* of its <<key, value>> pairs, a value being a tuple of strings.          *)

\* Number of messages handled in one run.
AMaxMsgs == 2

NoCmd == [present |-> FALSE, t |-> "null", s |-> ""]
Json(t, size) == [t |-> t, size |-> size, cmd |-> NoCmd]
JsonCmd(size, t, s) == [t |-> "obj", size |-> size, cmd |-> [present |-> TRUE, t |-> t, s |-> s]]

\* The command names sent: three registered ones and two that are not.
ACmds == {"ping", "stat", "file_read", "nope", "PING"}

\* The messages received: bytes that are not UTF-8, UTF-8 text that is not
\* JSON, and JSON values of every type, empty and not.
RawMsgs ==
    {[utf8 |-> FALSE, json |-> FALSE, value |-> Json("null", 0)],
     [utf8 |-> TRUE, json |-> FALSE, value |-> Json("null", 0)]}
    \cup {[utf8 |-> TRUE, json |-> TRUE, value |-> v] :
            v \in {Json("null", 0), Json("bool", 0), Json("bool", 1), Json("num", 0),
                   Json("num", 5), Json("str", 0), Json("str", 1), Json("list", 0),
                   Json("list", 1), Json("obj", 0), Json("obj", 1),
                   JsonCmd(1, "num", ""), JsonCmd(1, "null", ""), JsonCmd(2, "list", "")}
                  \cup {JsonCmd(n, "str", c) : n \in 1..2, c \in ACmds}}

\* What the handler of a registered command other than ping does: it
\* returns, or raises KeyError, a ParsecError or another exception.
HandlerOutcomes == {"ok", "KeyError", "ParsecError", "ValueError"}

\* The keys of API_CMDS_ROUTER (lines 86-112).
API_CMDS_ROUTER ==
    {"ping", "subscribe_event", "unsubscribe_event", "backend_status",
     "identity_signup", "identity_login", "identity_load", "identity_unload",
     "identity_info", "synchronize", "group_create", "dustbin_show", "history",
     "restore", "file_create", "file_read", "file_write", "file_truncate",
     "folder_create", "stat", "move", "delete", "undelete"}

\* bool(value) of Python: None, False, 0, "", [] and {} are false.
Truthy(v) == v.t # "null" /\ v.size # 0

\* parse_cmd (lines 20-24): None when the bytes are not UTF-8 or not JSON.
parse_cmd(raw_cmd) == IF raw_cmd.utf8 /\ raw_cmd.json THEN raw_cmd.value ELSE Json("null", 0)

BadMsg(label) == {<<"status", <<"bad_msg">> >>, <<"label", label>>}

\* The ParsecError a handler raises, as to_dict() gives it.
HandlerError == {<<"status", <<"some_error">> >>, <<"label", <<"Some label">> >>}

\* The handler of cmd run on params: api_ping (lines 81-83) returns, the
\* others end as outcome says.
RunHandler(cmd, params, outcome) ==
    IF cmd = "ping"
    THEN [raised |-> "none", resp |-> {<<"status", <<"ok">> >>, <<"pong", <<"">> >>}]
    ELSE IF outcome = "ok" THEN [raised |-> "none", resp |-> {<<"status", <<"ok">> >>}]
    ELSE [raised |-> outcome, resp |-> {}]

\* execute_cmd (lines 41-49)
execute_cmd(cmd, params, outcome) ==
    IF cmd \notin API_CMDS_ROUTER
    THEN [exc |-> "none", ran |-> FALSE, resp |-> BadMsg(<<"Unknown command", cmd>>)]
    ELSE LET H == RunHandler(cmd, params, outcome)
         IN  IF H.raised = "KeyError"
             THEN [exc |-> "none", ran |-> TRUE, resp |-> BadMsg(<<"Unknown command", cmd>>)]
             ELSE IF H.raised = "ParsecError"
             THEN [exc |-> "none", ran |-> TRUE, resp |-> HandlerError]
             ELSE [exc |-> H.raised, ran |-> TRUE, resp |-> H.resp]

\* execute_raw_cmd (lines 27-38): ret is the reply before it is encoded,
\* cmd the command execute_cmd was called with, if it was.  The labels are
\* written without the backquotes the code puts around cmd and the command.
execute_raw_cmd(raw_cmd, outcome) ==
    LET params == parse_cmd(raw_cmd)
    IN  IF ~Truthy(params)
        THEN [exc |-> "none", ran |-> FALSE, called |-> FALSE, cmd |-> "",
              ret |-> BadMsg(<<"Message is not a valid JSON.">>)]
        ELSE IF params.t \in {"bool", "num", "str"}
        THEN [exc |-> "AttributeError", ran |-> FALSE, called |-> FALSE, cmd |-> "", ret |-> {}]
        ELSE IF params.t = "list"
        THEN [exc |-> "TypeError", ran |-> FALSE, called |-> FALSE, cmd |-> "", ret |-> {}]
        ELSE IF ~(params.cmd.present /\ params.cmd.t = "str")
        THEN [exc |-> "none", ran |-> FALSE, called |-> FALSE, cmd |-> "",
              ret |-> BadMsg(<<"cmd string field is mandatory.">>)]
        ELSE LET R == execute_cmd(params.cmd.s, [params EXCEPT !.size = @ - 1, !.cmd = NoCmd],
                                  outcome)
             IN  [exc |-> R.exc, ran |-> R.ran, called |-> TRUE, cmd |-> params.cmd.s,
                  ret |-> R.resp]

AInit == CBIdle /\ FileIdle

\* One message is received and answered; the reply is ejson_dumps(ret).
ARequest ==
    \E raw_cmd \in RawMsgs, outcome \in HandlerOutcomes :
        /\ fops < AMaxMsgs
        /\ LET R == execute_raw_cmd(raw_cmd, outcome)
           IN  last' = [op |-> "execute_raw_cmd", raw |-> raw_cmd, outcome |-> outcome,
                        exc |-> R.exc, ran |-> R.ran, called |-> R.called, cmd |-> R.cmd,
                        reply |-> EjsonDumps(R.ret)]
        /\ fops' = fops + 1
        /\ UNCHANGED <<handles, files, blocks_local, blocks_backend, vlobs_local,
                       vlobs_backend, fresh, log, ref, cbvars, taskvars>>

ANext == ARequest

SpecApi == AInit /\ [][ANext]_vars

Answered(label) == last.exc = "none" /\ last.reply = EjsonDumps(BadMsg(label))

\* C29: the reply is "Message is not a valid JSON." exactly when the message
\* is not valid UTF-8 JSON, it is "cmd string field is mandatory." for
\* every JSON object without a string cmd, the empty object included, and
\* no handler is run in either case.
C29_EnvelopeErrors ==
    last.op = "execute_raw_cmd"
        => /\ Answered(<<"Message is not a valid JSON.">>)
                <=> ~(last.raw.utf8 /\ last.raw.json)
           /\ (/\ last.raw.utf8 /\ last.raw.json
               /\ last.raw.value.t = "obj"
               /\ ~(last.raw.value.cmd.present /\ last.raw.value.cmd.t = "str"))
                  => Answered(<<"cmd string field is mandatory.">>)
           /\ (\/ Answered(<<"Message is not a valid JSON.">>)
               \/ Answered(<<"cmd string field is mandatory.">>)) => ~last.ran

\* C30: execute_cmd answers "Unknown command X" exactly when X is no key of
\* API_CMDS_ROUTER, runs no handler for such an X, and answers the
\* dictionary of the ParsecError a handler raises.
C30_UnknownIffUnregistered ==
    (last.op = "execute_raw_cmd" /\ last.called)
        => /\ Answered(<<"Unknown command", last.cmd>>) <=> last.cmd \notin API_CMDS_ROUTER
           /\ last.cmd \notin API_CMDS_ROUTER => ~last.ran
           /\ (last.ran /\ last.cmd # "ping" /\ last.outcome = "ParsecError")
                  => (last.exc = "none" /\ last.reply = EjsonDumps(HandlerError))

----------------------------------------------------------------------------
(* AESKey of src/parsec/crypto.py: AES-GCM over byte sequences.  A byte is *)
(* a bit here; GCM is modelled by what it does to lengths and to the       *)
(* round trip: a counter-mode body of the length of the cleartext and a    *)
(* 16-byte tag over key, IV and body that finalize() compares.             *)

\* Largest length of a cleartext given to AESKey.encrypt.
KMaxLen == 2
\* Number of AESKey calls in one run.
KMaxOps == 2

\* cryptography's algorithms.AES.block_size, in bits.
AES_block_size == 128
\* Length in bytes of the tag of cryptography's GCM mode.
GCM_tag_size == 16

KBytes == 0 .. 1
KKeys == 0 .. 1

RECURSIVE ByteSeqs(_)
ByteSeqs(n) ==
    IF n = 0 THEN {<<>>}
    ELSE LET S == ByteSeqs(n - 1)
         IN  S \cup {Append(s, b) : s \in {x \in S : Len(x) = n - 1}, b \in KBytes}

RECURSIVE SumSeq(_, _)
SumSeq(s, i) == IF i > Len(s) THEN 0 ELSE s[i] + SumSeq(s, i + 1)

\* os.urandom(n): any n bytes; the model draws among the constant ones.
urandom(n) == {[i \in 1 .. n |-> b] : b \in KBytes}

\* encryptor.update(data) + encryptor.finalize(): counter mode, byte by byte.
GcmUpdate(key, iv, data) ==
    [i \in 1 .. Len(data) |-> (data[i] + key + iv[1] + i) % 2]

\* encryptor.tag: 16 bytes authenticating key, IV and body.
GcmTag(key, iv, body) ==
    [i \in 1 .. GCM_tag_size |-> (key + SumSeq(iv, 1) + SumSeq(body, 1) + Len(body)) % 2]

\* AESKey.encrypt, with the IV that urandom answered.
encrypt(key, iv, cleartext) ==
    iv \o GcmUpdate(key, iv, cleartext) \o GcmTag(key, iv, GcmUpdate(key, iv, cleartext))

\* The three slices AESKey.decrypt takes of its input.
DecryptIv(ciphertext) == PyTo(ciphertext, AES_block_size \div 8)
DecryptTag(ciphertext) == PyFrom(ciphertext, -16)
DecryptBody(ciphertext) == PySlice(ciphertext, 16, -16)

\* AESKey.decrypt: the cleartext, or InvalidTag from finalize().
decrypt(key, ciphertext) ==
    LET iv == DecryptIv(ciphertext)
        tag == DecryptTag(ciphertext)
        body == DecryptBody(ciphertext)
    IN  IF iv = <<>> \/ tag # GcmTag(key, iv, body)
        THEN [exc |-> "InvalidTag", res |-> <<>>, iv |-> iv, tag |-> tag]
        ELSE [exc |-> "", res |-> GcmUpdate(key, iv, body), iv |-> iv, tag |-> tag]

\* A ciphertext whose last byte was flipped on the way.
Flipped(ciphertext) ==
    [i \in 1 .. Len(ciphertext) |->
        IF i = Len(ciphertext) THEN 1 - ciphertext[i] ELSE ciphertext[i]]

KInit == CBIdle /\ FileIdle

KUnchanged ==
    UNCHANGED <<handles, files, blocks_local, blocks_backend, vlobs_local,
                vlobs_backend, fresh, log, ref, cbvars, taskvars>>

KEncrypt ==
    \E key \in KKeys, cleartext \in ByteSeqs(KMaxLen),
       iv \in urandom(AES_block_size \div 8) :
        /\ fops < KMaxOps
        /\ last' = [op |-> "encrypt", key |-> key, cleartext |-> cleartext,
                    exc |-> "", out |-> encrypt(key, iv, cleartext)]
        /\ fops' = fops + 1
        /\ KUnchanged

\* decrypt of the last ciphertext, as produced or damaged, under any key.
KDecrypt ==
    \E key \in KKeys, damaged \in BOOLEAN :
        /\ fops < KMaxOps
        /\ last.op = "encrypt"
        /\ LET ciphertext == IF damaged THEN Flipped(last.out) ELSE last.out
               R == decrypt(key, ciphertext)
           IN  last' = [op |-> "decrypt", key |-> key, ciphertext |-> ciphertext,
                        exc |-> R.exc, out |-> R.res, iv |-> R.iv, tag |-> R.tag,
                        sent |-> last.cleartext, sentkey |-> last.key,
                        damaged |-> damaged]
        /\ fops' = fops + 1
        /\ KUnchanged

KNext == KEncrypt \/ KDecrypt

SpecAes == KInit /\ [][KNext]_vars

\* C31: AESKey.encrypt(pt) is IV || CT || TAG with a 12-byte IV and a 16-byte
\* tag, so its length is len(pt) + 28 for every cleartext, the empty one
\* included, and AESKey.decrypt takes the first 12 bytes of its input as IV
\* and the last 16 bytes as tag.
C31_TwelveByteIv ==
    /\ last.op = "encrypt" => Len(last.out) = Len(last.cleartext) + 28
    /\ last.op = "decrypt" =>
           /\ last.iv = PyTo(last.ciphertext, 12)
           /\ last.tag = PyFrom(last.ciphertext, -16)

----------------------------------------------------------------------------
(* The truncate flush applies for a queue (SpecRW).                        *)

\* Lengths of the truncates of a modification queue.
TruncateLengths(mods) == {mods[i].length : i \in {j \in 1 .. Len(mods) : mods[j].op = "truncate"}}

SmallestTruncate(mods) ==
    CHOOSE m \in TruncateLengths(mods) : \A n \in TruncateLengths(mods) : m <= n

\* What read() would return of handle h had it no modification pending.
Stored(h) == read([Cur EXCEPT !.handles[h].modifications = <<>>], h, None, 0)

\* C32: when the queue flush() takes holds truncates, the file is first
\* truncated at the smallest length among all of them, also when that
\* smallest length is 0 and a truncate with a larger length follows it; a
\* queue of truncates alone leaves the stored content cut at that length.
C32_TruncatesAtSmallest ==
    [][(Did("flush") /\ TruncateLengths(handles[1].modifications) # {})
          => \A mods \in {handles[1].modifications}, before \in {Stored(1)} :
               /\ MergeModifications(mods, 1, <<>>, None).shortest_truncate
                      = SmallestTruncate(mods)
               /\ (Ok(before) /\ \A i \in 1 .. Len(mods) : mods[i].op = "truncate")
                      => \A after \in {ReadAll(1)'} :
                            /\ Ok(after)
                            /\ after.res = PyTo(before.res, SmallestTruncate(mods))]_vars

----------------------------------------------------------------------------
(* ContentBuilder.truncate, region by region (SpecCB).                     *)

\* The region map as a set of <<offset, content>> pairs.
Regions(cs) == {<<cs[i].off, cs[i].data>> : i \in 1 .. Len(cs)}

\* What truncate(length) is said to leave of the regions rs.
TruncatedRegions(rs, length) ==
    {r \in rs : r[1] < length /\ r[1] + Len(r[2]) <= length}
        \cup {<<r[1], PyTo(r[2], length - r[1])>> :
                 r \in {x \in rs : x[1] < length /\ length < x[1] + Len(x[2])}}

\* C33: ContentBuilder.truncate(length) removes every region whose offset is
\* >= length (a region that starts exactly at length is removed, not kept as
\* an empty region), cuts every region with offset < length < offset +
\* len(content) to length - offset bytes and leaves every region that ends
\* at or before length as it was.
C33_TruncateRegions ==
    \A length \in 0 .. CBMaxOff :
        Regions(ContentBuilderTruncate(contents, length))
            = TruncatedRegions(Regions(contents), length)

----------------------------------------------------------------------------
(* The version number of the updates of flush (SpecFile).                  *)

\* Positions of the EVlobUpdate requests in a log.
Updates(lg) == {i \in 1 .. Len(lg) : lg[i].e = "VlobUpdate"}

\* Length of the stored content once flush has applied its truncate.
FlushBase(content, merged) ==
    IF merged.shortest_truncate = None THEN Len(content)
    ELSE Min(Len(content), merged.shortest_truncate)

\* Length of the content once the regions of the queue are written too.
FlushEnd(merged, base) ==
    LET ends == {base} \cup {merged.contents[k].off + Len(merged.contents[k].data) :
                                k \in 1 .. Len(merged.contents)}
    IN  CHOOSE e \in ends : \A x \in ends : x <= e

\* C34: flush() never changes handle.version: every EVlobUpdate of one flush
\* (the truncate update and one per pending region) carries the number
\* handle.version + 1 and is built on what the one before staged, so that the
\* payload staged last holds every region of the queue; a flush made again
\* before commit uses the same number, since no operation but commit()
\* changes the version of a handle.
C34_FlushKeepsVersion ==
    [][/\ ~Did("commit") => \A h \in Handles : handles'[h].version = handles[h].version
       /\ Did("flush") =>
            \A h \in {last'.h} :
              /\ \A i \in Updates(log') :
                    /\ log'[i].id = handles[h].id
                    /\ log'[i].version = handles[h].version + 1
                    /\ log'[i].at[h].version = handles[h].version
              /\ (last'.exc = "none" /\ Cardinality(Updates(log')) >= 2)
                    => \A merged \in {MergeModifications(handles[h].modifications,
                                                         1, <<>>, None)},
                          before \in {Stored(h)}, after \in {ReadAll(h)'} :
                            Ok(before) =>
                              /\ Ok(after)
                              /\ (\A k \in 1 .. Len(merged.contents) :
                                     merged.contents[k].off <= FlushBase(before.res, merged))
                                    => Len(after.res)
                                         = FlushEnd(merged, FlushBase(before.res, merged))
                              /\ \A k \in 1 .. Len(merged.contents) :
                                    merged.contents[k].off <= FlushBase(before.res, merged)
                                      => PySlice(after.res, merged.contents[k].off,
                                                 merged.contents[k].off
                                                     + Len(merged.contents[k].data))
                                             = merged.contents[k].data]_vars

\* A flush that issued two updates or more, on a handle committed before.
C34_FlushTwoUpdates ==
    /\ last.op = "flush" /\ last.exc = "none"
    /\ Cardinality(Updates(log)) >= 2
    /\ handles[last.h].version >= 1

----------------------------------------------------------------------------
(* The handle File.load builds (SpecFile).                                 *)

\* C35: File.load of an id that is in the Synchronizer's list of locally
\* dirty vlobs returns a handle with dirty true and version equal to the
\* last committed version of the vlob (0 when it was never committed),
\* whatever version was requested; load of an id that is not locally dirty
\* returns a handle with dirty false and the version that was read.
C35_LoadReflectsCommitted ==
    (last.op = "load" /\ last.exc = "none" /\ ~last.hit) =>
        \A f \in {handles[last.h]} :
            IF f.id \in DOMAIN vlobs_local
            THEN f.dirty /\ f.version = Committed(vlobs_backend, f.id)
            ELSE ~f.dirty /\ f.version \in 1 .. Committed(vlobs_backend, f.id)

----------------------------------------------------------------------------
(* _find_matching_blocks as a partition of the file (SpecRead).            *)

\* Cleartext of the blocks of a list of block groups, in order.
GroupsContent(groups) == ItemsContent(blocks_local, blocks_backend, BlobItems(groups, 1), 1)

\* Block ids of a list of block groups, in order.
GroupsIds(groups) == [i \in 1 .. Len(BlobItems(groups, 1)) |-> BlobItems(groups, 1)[i].bp.block]

\* The seven parts of a result, concatenated in file order.
PartsInOrder(m) ==
    GroupsContent(m.pre_excluded_blocks) \o m.pre_excluded_data \o m.pre_included_data
        \o GroupsContent(m.included_blocks) \o m.post_included_data
        \o m.post_excluded_data \o GroupsContent(m.post_excluded_blocks)

\* The three included parts of a result.
IncludedParts(m) ==
    m.pre_included_data \o GroupsContent(m.included_blocks) \o m.post_included_data

\* Block ids the three block lists of a result hold.
ListedIds(m) ==
    GroupsIds(m.pre_excluded_blocks) \o GroupsIds(m.included_blocks)
        \o GroupsIds(m.post_excluded_blocks)

\* Number of blocks whose bytes a result holds as data.
CutBlocks(m) ==
    (IF m.pre_excluded_data \o m.pre_included_data # <<>> THEN 1 ELSE 0)
        + (IF m.post_included_data # <<>> THEN 1 ELSE 0)

\* C36: for every layout and every (size, offset), the result of
\* _find_matching_blocks is a partition of the file: its seven parts,
\* concatenated in order, are the whole content, every block is in one block
\* list only or is one of the blocks cut into data, and the three included
\* parts are the bytes [offset, offset + size) of the file.
C36_FindPartitions ==
    \A size \in {None} \cup (0 .. LMaxSize), offset \in 0 .. LMaxOff :
        \A M \in {find_matching_blocks(Cur, 1, size, offset)} :
            /\ Ok(M)
            /\ PartsInOrder(M.res) = ref[1]
            /\ IncludedParts(M.res)
                   = IF size = None THEN PyFrom(ref[1], offset)
                     ELSE PySlice(ref[1], offset, offset + size)
            /\ \A i, j \in 1 .. Len(ListedIds(M.res)) :
                   i # j => ListedIds(M.res)[i] # ListedIds(M.res)[j]
            /\ Len(ListedIds(M.res)) + CutBlocks(M.res)
                   = Len(BlobItems(VlobPayload(vlobs_local[handles[1].id].blob), 1))

\* A layout and a range for which every kind of part but one is not empty:
\* blocks before the range, a block cut at its start, a block cut at its end.
C36_CutAtBothEnds ==
    /\ last.op = "read" /\ last.exc = "none" /\ last.size # None
    /\ \E M \in {find_matching_blocks(Cur, 1, last.size, last.offset)} :
           /\ Ok(M)
           /\ M.res.pre_excluded_blocks # <<>>
           /\ M.res.pre_excluded_data # <<>>
           /\ M.res.pre_included_data # <<>>
           /\ M.res.post_included_data # <<>>
           /\ M.res.post_excluded_data # <<>>

----------------------------------------------------------------------------
(* Blocks created inside one flush (SpecRW).                               *)

\* Ids of the blocks EBlockCreate made among the effects lg.
Created(lg) == {lg[i].id : i \in {j \in 1 .. Len(lg) : lg[j].e = "BlockCreate"}}

\* C37: when flush() has returned, every block EBlockCreate made during that
\* flush is referenced by the vlob payload staged at its end or has been
\* deleted by an EBlockDelete of that flush: no block made by the truncate
\* step or by an earlier region and superseded by a later sub-update stays
\* unreferenced in the block store.
C37_NoOrphanBlock ==
    [][(Did("flush") /\ last'.exc = "none")
          => \A b \in Created(log') :
                \/ b \in CurrentBlockIds(Cur', handles'[last'.h])
                \/ Deletes(log', b) >= 1]_vars

----------------------------------------------------------------------------
(* SpecCommit: a commit suspended at its synchronize requests while a       *)
(* second task writes and flushes the same handle.  A request is issued by  *)
(* the commit, served by the Synchronizer at some later step and answered   *)
(* to the commit at a step after that: the yield points are the requests.   *)

\* Number of submissions (write, flush, commit) in one run.
PMaxOps == 4
\* Largest length and offset of a write of the second task.
PMaxLen == 1
PMaxOff == 1

PInit == TInit

\* The commit asks for the synchronization of its i-th block, or of the vlob
\* once every block is done (lines 288-290).
Request(ids, i) ==
    [pc |-> IF i <= Len(ids) THEN "block" ELSE "vlob", ids |-> ids, i |-> i,
     served |-> FALSE, answer |-> None]

\* The second task submits a write or a flush, which runs at once.
PWrite ==
    \E n \in 1 .. PMaxLen, offset \in 0 .. PMaxOff :
        /\ fops < PMaxOps
        /\ Write(1, n, offset)
        /\ serial' = write(serial, 1, TagData(fops + 1, n), offset)
        /\ UNCHANGED <<task, cbvars>>

PFlush ==
    /\ fops < PMaxOps
    /\ Flush(1)
    /\ serial' = flush(serial, 1)
    /\ UNCHANGED <<task, cbvars>>

\* The first task submits commit, which runs up to its first synchronize
\* request (lines 286-289).
PCommitBegin ==
    /\ task = NoTask
    /\ fops < PMaxOps
    /\ LET G == Then(flush(Cur, 1), LAMBDA F : get_blocks(F, 1))
       IN  /\ Install(G, [op |-> "commit_begin", h |-> 1])
           /\ task' = IF Ok(G) THEN Request(G.res, 1) ELSE NoTask
    /\ serial' = commit(serial, 1, 0, FALSE)
    /\ UNCHANGED <<ref, cbvars>>

\* The Synchronizer serves the request the commit is suspended at.
PServe ==
    /\ task.pc \in {"block", "vlob"}
    /\ ~task.served
    /\ LET R == IF task.pc = "block" THEN EBlockSynchronize(Cur, task.ids[task.i], TRUE)
                ELSE EVlobSynchronize(Cur, handles[1].id, TRUE, FALSE)
       IN  /\ Resume(R, [op |-> "serve", h |-> 1])
           /\ task' = [task EXCEPT !.served = TRUE,
                                   !.answer = [exc |-> R.exc, res |-> R.res]]

\* The commit gets the answer and goes on to its next request, or to its end
\* after the answer of EVlobSynchronize (lines 290-302).
PCommitAnswer ==
    /\ task.pc \in {"block", "vlob"}
    /\ task.served
    /\ IF task.answer.exc # "none"
       THEN /\ Resume(Raise(Cur, task.answer.exc), [op |-> "commit", h |-> 1])
            /\ task' = NoTask
       ELSE IF task.pc = "block"
       THEN /\ Resume(Cur, [op |-> "commit_next", h |-> 1])
            /\ task' = Request(task.ids, task.i + 1)
       ELSE /\ Resume(CommitAnswer(Cur, 1, task.answer.res), [op |-> "commit", h |-> 1])
            /\ task' = NoTask

PNext == PWrite \/ PFlush \/ PCommitBegin \/ PServe \/ PCommitAnswer

SpecCommit == PInit /\ [][PNext]_vars

\* The content of the last version of the vlob of handle 1 the backend holds.
CommittedContent(S) ==
    IF Committed(S.vb, S.handles[1].id) = 0 THEN <<>>
    ELSE BlobContent(S.bl, S.bb, S.vb[S.handles[1].id][Committed(S.vb, S.handles[1].id)])

\* C38: when a commit was suspended at a block or vlob synchronize request
\* while another task wrote and flushed the same handle, then once both have
\* finished the update the second task staged is not marked clean unseen:
\* dirty is false only if the Synchronizer holds no staged update of the
\* vlob, and a commit made next pushes what was written, as it does when the
\* operations run one after the other.
C38_StagedNotMarkedClean ==
    task = NoTask =>
        /\ ~handles[1].dirty => handles[1].id \notin DOMAIN vlobs_local
        /\ \A next \in {commit(Cur, 1, 0, FALSE)}, alone \in {commit(serial, 1, 0, FALSE)} :
               Ok(alone) => /\ Ok(next)
                            /\ CommittedContent(next) = CommittedContent(alone)

----------------------------------------------------------------------------
(* IdentityComponent of src/parsec/core/identity.py.  The effects it       *)
(* requests (EEvent, EBlockReset, EBackendReset and the backend's cipher   *)
(* key and register calls) are served by components that may refuse.       *)

\* Number of requests made to the component in one run.
IdMaxOps == 3
\* Number of private keys generate_asym_key makes in one run.
IdMaxKeys == 2

IdentityIds == {"alice", "bob"}
Passwords == {"secret", "other"}
KeySizes == {512, 2048}

\* A private key exported under a password (RSAPrivateKey.export), and bytes
\* that are no key.
Exported(n, size, password) == [pem |-> n, size |-> size, password |-> password]
Garbage == [pem |-> 0, size |-> 0, password |-> ""]
RawKeys == {Exported(n, 2048, pw) : n \in 1 .. IdMaxKeys, pw \in Passwords}
               \cup {Exported(1, 512, "secret"), Garbage}

\* Whether load_private_key(raw_key, password) returns: the bytes are a key
\* exported under that password and RSAPrivateKey accepts its size.
LoadsKey(raw_key, password) ==
    /\ raw_key.pem # 0
    /\ raw_key.password = password
    /\ ~(raw_key.size < 1023)

load_private_key(raw_key, password) == [n |-> raw_key.pem, size |-> raw_key.size]
pub_key(private_key) == [pub |-> private_key.n]

Identity(id, private_key, public_key) ==
    [loaded |-> TRUE, id |-> id, private_key |-> private_key, public_key |-> public_key]

\* The component and the backend before an operation, which has requested no
\* effect yet.
IdCur == [identity |-> identity, backend |-> backend, made |-> fresh.key,
         log |-> <<>>, exc |-> "none", res |-> None]

\* An effect served by another component: it is performed, or it raises.
Perform(S, entry, ok, error) ==
    IF ok THEN [S EXCEPT !.log = Append(@, entry @@ [ok |-> TRUE])]
    ELSE Raise([S EXCEPT !.log = Append(@, entry @@ [ok |-> FALSE])], error)

EEvent(S, event, ok) == Perform(S, [e |-> "Event", event |-> event], ok, "EventError")
EBlockReset(S, ok) == Perform(S, [e |-> "BlockReset"], ok, "BlockError")
EBackendReset(S, ok) == Perform(S, [e |-> "BackendReset"], ok, "BackendError")

\* EBackendCipherKeyAdd: the backend stores the exported key under (id,
\* password), unless it refuses.
EBackendCipherKeyAdd(S, id, password, cipherkey, ok) ==
    Then(Perform(S, [e |-> "CipherKeyAdd", id |-> id], ok, "BackendError"), LAMBDA P :
        [P EXCEPT !.backend.cipherkeys = @ \cup {<<id, password, cipherkey>>}])

\* EBackendIdentityRegister: the backend registers the public key of id,
\* unless it refuses.
EBackendIdentityRegister(S, id, pubkey, ok) ==
    Then(Perform(S, [e |-> "IdentityRegister", id |-> id], ok, "BackendError"), LAMBDA P :
        [P EXCEPT !.backend.identities = @ \cup {<<id, pubkey>>}])

\* EBackendCipherKeyGet: the key stored under (id, password), if any.
EBackendCipherKeyGet(S, id, password) ==
    LET found == {c \in S.backend.cipherkeys : c[1] = id /\ c[2] = password}
        L == [S EXCEPT !.log = Append(@, [e |-> "CipherKeyGet", id |-> id,
                                           ok |-> found # {}])]
    IN  IF found = {} THEN Raise(L, "IdentityNotFound")
        ELSE Return(L, (CHOOSE c \in found : TRUE)[3])

\* IdentityComponent.perform_identity_load (lines 52-63)
perform_identity_load(S, intent, fault) ==
    IF S.identity.loaded THEN Raise(S, "IdentityError")
    ELSE IF ~LoadsKey(intent.key, intent.password) THEN Raise(S, "IdentityError")
    ELSE Let1(load_private_key(intent.key, intent.password), LAMBDA private_key :
           Then(EEvent([S EXCEPT !.identity =
                            Identity(intent.id, private_key, pub_key(private_key))],
                       "identity_loaded", fault # 1),
                LAMBDA E : Return(E, E.identity)))

\* IdentityComponent.perform_identity_unload (lines 65-75)
perform_identity_unload(S, fault) ==
    IF ~S.identity.loaded THEN Raise(S, "IdentityNotLoadedError")
    ELSE Then(EBlockReset(S, fault # 1), LAMBDA B :
           Then(EBackendReset(B, fault # 2), LAMBDA R :
             Then(EEvent(R, "identity_unloaded", fault # 3), LAMBDA E :
               [E EXCEPT !.identity = NoIdentity])))

\* IdentityComponent.perform_identity_get (lines 77-80)
perform_identity_get(S) ==
    IF ~S.identity.loaded THEN Raise(S, "IdentityNotLoadedError")
    ELSE Return(S, S.identity)

\* IdentityComponent.perform_identity_login (lines 93-96)
perform_identity_login(S, intent, fault) ==
    Then(EBackendCipherKeyGet(S, intent.id, intent.password), LAMBDA C :
        perform_identity_load(C, [id |-> intent.id, key |-> C.res,
                                  password |-> intent.password], fault))

IdInit == CBIdle /\ FileIdle

\* The state after a request to the component.
IdInstall(S, what) ==
    /\ identity' = S.identity
    /\ backend' = S.backend
    /\ fresh' = [fresh EXCEPT !.key = S.made]
    /\ log' = S.log
    /\ last' = what @@ [exc |-> S.exc, before |-> identity]
    /\ fops' = fops + 1
    /\ UNCHANGED <<handles, files, blocks_local, blocks_backend, vlobs_local,
                   vlobs_backend, ref, contents, shadow, cbn, cbtrunc, serial>>

IdLoad ==
    \E id \in IdentityIds, key \in RawKeys, password \in Passwords, fault \in 0 .. 1 :
        /\ fops < IdMaxOps
        /\ IdInstall(perform_identity_load(IdCur, [id |-> id, key |-> key,
                                                 password |-> password], fault),
                    [op |-> "load", fault |-> fault,
                     valid |-> LoadsKey(key, password)])
        /\ UNCHANGED task

IdUnload ==
    \E fault \in 0 .. 3 :
        /\ fops < IdMaxOps
        /\ IdInstall(perform_identity_unload(IdCur, fault), [op |-> "unload", fault |-> fault])
        /\ UNCHANGED task

IdGet ==
    /\ fops < IdMaxOps
    /\ IdInstall(perform_identity_get(IdCur), [op |-> "get"])
    /\ UNCHANGED task

IdLogin ==
    \E id \in IdentityIds, password \in Passwords, fault \in 0 .. 1 :
        /\ fops < IdMaxOps
        /\ IdInstall(perform_identity_login(IdCur, [id |-> id, password |-> password], fault),
                    [op |-> "login", fault |-> fault])
        /\ UNCHANGED task


\* generate_asym_key(size) followed by export(password) and pub_key.export():
\* the n-th key made, exported under the password, and its public key.
generate_asym_key(n, size) == [n |-> n, size |-> size]
export(private_key, password) == Exported(private_key.n, private_key.size, password)

\* The frame of perform_identity_signup before its first statement.
SignupStart(intent, n) ==
    [pc |-> "start", id |-> intent.id, password |-> intent.password,
     key_size |-> intent.key_size, n |-> n, cipherkey |-> Garbage,
     pubkey |-> [pub |-> 0], served |-> FALSE, answer |-> FALSE,
     issued |-> <<>>, exc |-> "none"]

\* The generator yields Effect(e): the request is issued and the frame waits
\* for its answer.
Yield(t, e) ==
    [t EXCEPT !.pc = e, !.served = FALSE,
              !.issued = Append(@, [e |-> e, id |-> t.id, at |-> "issue"])]
Finish(t, exc) == [t EXCEPT !.pc = "done", !.exc = exc]

\* perform_identity_signup registering the public key before it saves the
\* cipher key: a variant.
perform_identity_signup_register_first(t) ==
    CASE t.pc = "start" ->
           IF ~(t.key_size > 1023) THEN Finish(t, "AssertionError")
           ELSE Let1(generate_asym_key(t.n, t.key_size), LAMBDA private_key :
                  Yield([t EXCEPT !.cipherkey = export(private_key, t.password),
                                  !.pubkey = pub_key(private_key)],
                        "IdentityRegister"))
      [] t.pc = "IdentityRegister" ->
           IF t.answer THEN Yield(t, "CipherKeyAdd") ELSE Finish(t, "BackendError")
      [] t.pc = "CipherKeyAdd" ->
           IF t.answer THEN Finish(t, "none") ELSE Finish(t, "BackendError")

\* IdentityComponent.perform_identity_signup (lines 82-91), from the frame t
\* it is suspended at (or its start) up to its next yield or its end.
perform_identity_signup(t) ==
    CASE t.pc = "start" ->
           IF ~(t.key_size > 1023) THEN Finish(t, "AssertionError")
           ELSE Let1(generate_asym_key(t.n, t.key_size), LAMBDA private_key :
                  Yield([t EXCEPT !.cipherkey = export(private_key, t.password),
                                  !.pubkey = pub_key(private_key)],
                        "CipherKeyAdd"))
      [] t.pc = "CipherKeyAdd" ->
           IF t.answer THEN Yield(t, "IdentityRegister") ELSE Finish(t, "BackendError")
      [] t.pc = "IdentityRegister" ->
           IF t.answer THEN Finish(t, "none") ELSE Finish(t, "BackendError")

\* What a step of signup leaves: the frame while it is suspended, how it
\* ended once it is over.
IdSignupInstall(t) ==
    /\ task' = IF t.pc = "done" THEN NoTask ELSE t
    /\ last' = IF t.pc = "done"
               THEN [op |-> "signup", id |-> t.id, exc |-> t.exc, issued |-> t.issued,
                     pubkey |-> t.pubkey, before |-> identity]
               ELSE last

IdSignupBegin ==
    \E id \in IdentityIds, password \in Passwords, key_size \in KeySizes :
        /\ task = NoTask
        /\ fops < IdMaxOps
        /\ fresh.key <= IdMaxKeys
        /\ IdSignupInstall(perform_identity_signup(
               SignupStart([id |-> id, password |-> password, key_size |-> key_size],
                           fresh.key)))
        /\ fresh' = [fresh EXCEPT !.key = @ + 1]
        /\ fops' = fops + 1
        /\ UNCHANGED <<handles, files, blocks_local, blocks_backend, vlobs_local,
                       vlobs_backend, log, ref, contents, shadow, cbn, cbtrunc,
                       serial, identity, backend>>

\* The backend serves the request signup is suspended at, or refuses it.
IdServe ==
    \E ok \in BOOLEAN :
        /\ task.pc \in {"CipherKeyAdd", "IdentityRegister"}
        /\ ~task.served
        /\ LET P == IF task.pc = "CipherKeyAdd"
                    THEN EBackendCipherKeyAdd(IdCur, task.id, task.password,
                                              task.cipherkey, ok)
                    ELSE EBackendIdentityRegister(IdCur, task.id, task.pubkey, ok)
           IN  /\ backend' = P.backend
               /\ task' = [task EXCEPT !.served = TRUE, !.answer = ok,
                               !.issued = Append(@, [e |-> task.pc, id |-> task.id,
                                                     at |-> IF ok THEN "done"
                                                                  ELSE "failed"])]
        /\ UNCHANGED <<handles, files, blocks_local, blocks_backend, vlobs_local,
                       vlobs_backend, fresh, log, last, ref, fops, contents, shadow,
                       cbn, cbtrunc, serial, identity>>

\* signup resumes with the answer to its request.
IdSignupResume ==
    /\ task.pc \in {"CipherKeyAdd", "IdentityRegister"}
    /\ task.served
    /\ IdSignupInstall(perform_identity_signup(task))
    /\ UNCHANGED <<handles, files, blocks_local, blocks_backend, vlobs_local,
                   vlobs_backend, fresh, log, ref, fops, contents, shadow, cbn,
                   cbtrunc, serial, identity, backend>>

IdNext == IdLoad \/ IdUnload \/ IdGet \/ IdLogin \/ IdSignupBegin \/ IdServe \/ IdSignupResume

SpecIdentity == IdInit /\ [][IdNext]_vars


\* The effects of the last operation that were performed.
Performed(lg) == {lg[i].e : i \in {j \in DOMAIN lg : lg[j].ok}}

\* C39: IdentityComponent holds at most one identity and its state changes
\* only on success.  A load, unload or get that raises leaves the identity as
\* it was; a load over a loaded identity raises IdentityError; a load with an
\* invalid key raises IdentityError and the identity stays None; unload and
\* get with no identity raise IdentityNotLoadedError; unload clears the
\* identity only once EBlockReset, EBackendReset and the identity_unloaded
\* event have all been performed.
C39_StateChangesOnlyOnSuccess ==
    last.op \in {"load", "unload", "get"} =>
        /\ last.exc # "none" => identity = last.before
        /\ (last.op = "load" /\ last.before.loaded) =>
               last.exc = "IdentityError" /\ identity = last.before
        /\ (last.op = "load" /\ ~last.before.loaded /\ ~last.valid) =>
               last.exc = "IdentityError" /\ identity = NoIdentity
        /\ (last.op \in {"unload", "get"} /\ ~last.before.loaded) =>
               last.exc = "IdentityNotLoadedError"
        /\ (last.op = "unload" /\ identity # last.before) =>
               /\ identity = NoIdentity
               /\ Performed(log) = {"BlockReset", "BackendReset", "Event"}
        /\ (last.op = "unload" /\ last.before.loaded /\ last.fault # 0) =>
               identity = last.before
        /\ last.op = "get" => identity = last.before


\* The requests signup has issued and the answers it got, while it runs and
\* once it is over.
SignupIssued ==
    IF task # NoTask THEN task.issued
    ELSE IF last.op = "signup" THEN last.issued ELSE <<>>

\* C40: in every execution of signup, EBackendCipherKeyAdd is issued and
\* has completed before EBackendIdentityRegister is issued, and when saving
\* the cipher key fails the public key is never registered: the backend
\* registers no public key whose private key it has not stored.
C40_CipherKeyBeforeRegister ==
    /\ \A j \in DOMAIN SignupIssued :
           SignupIssued[j].e = "IdentityRegister" =>
               \E i \in 1 .. j - 1 : /\ SignupIssued[i].e = "CipherKeyAdd"
                                     /\ SignupIssued[i].at = "done"
    /\ task.pc = "IdentityRegister" =>
           <<task.id, task.password, task.cipherkey>> \in backend.cipherkeys
    /\ \A j \in DOMAIN SignupIssued :
           (SignupIssued[j].e = "CipherKeyAdd" /\ SignupIssued[j].at = "failed") =>
               \A i \in DOMAIN SignupIssued : SignupIssued[i].e # "IdentityRegister"
    /\ \A r \in backend.identities :
           \E c \in backend.cipherkeys : c[1] = r[1] /\ pub_key([n |-> c[3].pem]) = r[2]

\* A signup ran to its end: the cipher key was saved, then the public key was
\* registered.
C40_SignedUp ==
    /\ last.op = "signup"
    /\ last.exc = "none"
    /\ task = NoTask
    /\ <<last.id, last.pubkey>> \in backend.identities
    /\ Len(last.issued) = 4

====
